---- MODULE Spec2Model ----
(***************************************************************************)
(* Model of ai/receipt_fraud_detector.py: ReceiptFraudDetector and its     *)
(* analyze_receipt orchestration (lookup, fan-out of four analyzers, the    *)
(* category verifier, merge, scoring, summary, persistence, return).        *)
(*                                                                          *)
(* Python dicts are functions with a finite set of string keys; lists are   *)
(* sequences; floats in [0,1] are exact fixed-point integers in units of    *)
(* 1/Scale.  A value whose shape the code does not control (a reply of the  *)
(* reasoning service) is tagged with its kind.                              *)
(***************************************************************************)
EXTENDS Integers, Sequences, FiniteSets, Bags, TLC

\* ---------------------------------------------------------------- bounds
\* tool calls in one reply of the reasoning service
MaxToolCalls == 1
\* /delete_db requests the chat server receives
MaxRequests == 3
\* tool calls in one reply, when the category verifier is followed step by step
MaxRoundCalls == 2
\* analyze_receipt invocations on one detector object
MaxRuns == 2
\* risk factors of a detector when its summary is written
MaxFactors == 4
\* manipulation indicators of an image
MaxIndicators == 3
\* characters of an amount as the expense parser's reply writes it
MaxChars == 4

\* ----------------------------------------------------------- fixed point
\* 1.0 in score units; divisible by 100, by 10 and by 10 * lcm(1..8)
Scale == 840 * 1000
Tenth == Scale \div 10

RECURSIVE SumSeq(_)
SumSeq(s) == IF s = <<>> THEN 0 ELSE Head(s) + SumSeq(Tail(s))

\* sum(xs) / len(xs) if xs else 0.0
Average(xs) == IF xs = <<>> THEN 0 ELSE SumSeq(xs) \div Len(xs)

\* ------------------------------------------------------ double arithmetic
\* The floats of the code are IEEE 754 doubles: every operation gives the
\* double nearest to the exact result, ties to the even mantissa.
\* A natural number of any size is a sequence of limbs in base 2^15, least
\* significant first, without a leading zero limb; 0 is <<>>.
Base == 2 ^ 15

RECURSIVE Trim(_)
Trim(a) == IF a # <<>> /\ a[Len(a)] = 0 THEN Trim(SubSeq(a, 1, Len(a) - 1)) ELSE a

RECURSIVE AddC(_, _, _)
AddC(a, b, carry) ==
    IF a = <<>> /\ b = <<>> THEN (IF carry = 0 THEN <<>> ELSE <<carry>>)
    ELSE LET x == (IF a = <<>> THEN 0 ELSE Head(a)) + (IF b = <<>> THEN 0 ELSE Head(b))
                  + carry
         IN  <<x % Base>> \o AddC(IF a = <<>> THEN a ELSE Tail(a),
                                  IF b = <<>> THEN b ELSE Tail(b), x \div Base)

\* a - b for a >= b
RECURSIVE SubB(_, _, _)
SubB(a, b, borrow) ==
    IF a = <<>> THEN <<>>
    ELSE LET x == Head(a) - (IF b = <<>> THEN 0 ELSE Head(b)) - borrow
         IN  Trim(<<(x + Base) % Base>>
                  \o SubB(Tail(a), IF b = <<>> THEN b ELSE Tail(b),
                          IF x < 0 THEN 1 ELSE 0))

\* -1, 0 or 1 as a is less than, equal to or greater than b
Cmp(a, b) ==
    LET differ == {i \in 1..Len(a) : a[i] # b[i]}
        top == CHOOSE i \in differ : \A j \in differ : j <= i
    IN  IF Len(a) # Len(b) THEN (IF Len(a) < Len(b) THEN -1 ELSE 1)
        ELSE IF differ = {} THEN 0
        ELSE IF a[top] < b[top] THEN -1 ELSE 1

\* the Len(a) low limbs of a * k + carry and the carry out of them, for
\* 1 <= k < Base; the lower half of the limbs first, then the upper half
RECURSIVE MulLimbs(_, _, _)
MulLimbs(a, k, carry) ==
    IF Len(a) <= 1
    THEN [p |-> [i \in 1..Len(a) |-> (a[i] * k + carry) % Base],
          carry |-> IF a = <<>> THEN carry ELSE (a[1] * k + carry) \div Base]
    ELSE LET lo == MulLimbs(SubSeq(a, 1, Len(a) \div 2), k, carry)
             hi == MulLimbs(SubSeq(a, Len(a) \div 2 + 1, Len(a)), k, lo.carry)
         IN  IF lo.carry < Base THEN [p |-> lo.p \o hi.p, carry |-> hi.carry] ELSE lo

\* the limbs p with the carry out of them on top
WithCarry(r) == IF r.carry = 0 THEN r.p ELSE r.p \o <<r.carry>>

\* a * k + carry for 1 <= k < Base
MulC(a, k, carry) == WithCarry(MulLimbs(a, k, carry))

RECURSIVE Mul(_, _)
Mul(a, b) ==
    IF a = <<>> \/ b = <<>> THEN <<>>
    ELSE LET rest == Mul(a, Tail(b))
         IN  AddC(IF Head(b) = 0 THEN <<>> ELSE MulC(a, Head(b), 0),
                  IF rest = <<>> THEN rest ELSE <<0>> \o rest, 0)

\* the Len(a) limbs of the quotient of r * Base^Len(a) + a by k and the
\* remainder, for r < k < Base; the upper half of the limbs first
RECURSIVE DivLimbs(_, _, _)
DivLimbs(a, k, r) ==
    IF Len(a) <= 1
    THEN [q |-> [i \in 1..Len(a) |-> (r * Base + a[i]) \div k],
          r |-> IF a = <<>> THEN r ELSE (r * Base + a[1]) % k]
    ELSE LET hi == DivLimbs(SubSeq(a, Len(a) \div 2 + 1, Len(a)), k, r)
             lo == DivLimbs(SubSeq(a, 1, Len(a) \div 2), k, hi.r)
         IN  IF hi.r < k THEN [q |-> lo.q \o hi.q, r |-> lo.r] ELSE hi

\* a quotient without its leading zero limbs, and whether something was lost
\* in the division or before it
Quotient(d, sticky) == [q |-> Trim(d.q), sticky |-> sticky \/ d.r # 0]

\* the quotient of a by k, 1 <= k < Base, and whether it is inexact
DivMod(a, k) == Quotient(DivLimbs(a, k, 0), FALSE)

\* a * 2^n
Shl(a, n) ==
    IF a = <<>> THEN a ELSE [i \in 1..(n \div 15) |-> 0] \o MulC(a, 2 ^ (n % 15), 0)

\* a \div 2^n, and whether a bit was lost
Shr(a, n) ==
    IF n \div 15 >= Len(a) THEN [q |-> <<>>, sticky |-> a # <<>>]
    ELSE Quotient(DivLimbs(SubSeq(a, n \div 15 + 1, Len(a)), 2 ^ (n % 15), 0),
                  \E i \in 1..(n \div 15) : a[i] # 0)

BitLen(a) ==
    IF a = <<>> THEN 0
    ELSE 15 * (Len(a) - 1)
         + (CHOOSE n \in 1..15 : 2 ^ (n - 1) <= a[Len(a)] /\ a[Len(a)] < 2 ^ n)

Odd(a) == a # <<>> /\ Head(a) % 2 = 1

\* the limbs of a natural number below 2^31
RECURSIVE Big(_)
Big(n) == IF n = 0 THEN <<>> ELSE <<n % Base>> \o Big(n \div Base)

\* the number, for limbs that stand for a number below 2^31
RECURSIVE Small(_)
Small(a) == IF a = <<>> THEN 0 ELSE Head(a) + Base * Small(Tail(a))

\* A double: a NaN, an infinity, or (-1)^neg * m * 2^e with m = 0 (a zero),
\* m of 53 bits (a normal number) or m of fewer bits and e = -1074 (a
\* subnormal one)
NaN == [kind |-> "nan", neg |-> FALSE, m |-> <<>>, e |-> 0]
Inf(neg) == [kind |-> "inf", neg |-> neg, m |-> <<>>, e |-> 0]
Zero(neg) == [kind |-> "finite", neg |-> neg, m |-> <<>>, e |-> 0]

\* the double (-1)^neg * m * 2^e for m of at most 54 bits, of which the
\* 54th is set only when the low 53 are zero
RECURSIVE Pack(_, _, _)
Pack(neg, m, e) ==
    IF m = <<>> THEN Zero(neg)
    ELSE IF BitLen(m) = 54 THEN Pack(neg, Shr(m, 1).q, e + 1)
    ELSE IF e + BitLen(m) - 1 > 1023 THEN Inf(neg)
    ELSE [kind |-> "finite", neg |-> neg, m |-> m, e |-> e]

\* (cut.q + f) / 2 to the nearest natural number, ties to the even one, for
\* 0 <= f < 1 and f > 0 iff cut.sticky or sticky; down is cut.q \div 2
Nearest(cut, down, sticky) ==
    IF Odd(cut.q) /\ (cut.sticky \/ sticky \/ Odd(down)) THEN AddC(down, <<>>, 1)
    ELSE down

\* n \div 2^k to the nearest natural number, ties to the even one
Halved(cut, sticky) == Nearest(cut, Shr(cut.q, 1).q, sticky)

\* the double nearest to (-1)^neg * (n + f) * 2^e whose mantissa has the
\* exponent t
RoundAt(neg, n, e, t, sticky) ==
    Pack(neg, IF t <= e THEN Shl(n, e - t) ELSE Halved(Shr(n, t - e - 1), sticky), t)

\* the double nearest to (-1)^neg * (n + f) * 2^e, 0 <= f < 1 and f > 0 iff
\* sticky, ties to the even mantissa (a value with sticky set has at least
\* 55 bits in n)
Round(neg, n, e, sticky) ==
    RoundAt(neg, n, e,
            IF e + BitLen(n) - 53 > -1074 THEN e + BitLen(n) - 53 ELSE -1074, sticky)

DNeg(a) == IF a.kind = "nan" THEN a ELSE [a EXCEPT !.neg = ~a.neg]
DAbs(a) == [a EXCEPT !.neg = FALSE]

\* the double nearest to an * na * 2^e + bn * nb * 2^e, an and bn the signs
\* and c the comparison of na with nb
AddAligned(an, na, bn, nb, c, e) ==
    IF an # bn /\ c = 0 THEN Zero(FALSE)
    ELSE Round(IF an = bn \/ c > 0 THEN an ELSE bn,
               IF an = bn THEN AddC(na, nb, 0)
               ELSE IF c > 0 THEN SubB(na, nb, 0) ELSE SubB(nb, na, 0),
               e, FALSE)

\* the double nearest to an * na * 2^e + bn * nb * 2^e
AddShifted(an, na, bn, nb, e) == AddAligned(an, na, bn, nb, Cmp(na, nb), e)

\* the sum of two finite doubles that are not zero, at the exponents ae and
\* be: their own, or 64 bits below the other's for one far above it
AddAt(a, ae, b, be, emin) ==
    AddShifted(a.neg, Shl(a.m, ae - emin), b.neg, Shl(b.m, be - emin), emin)

\* a + b
DAdd(a, b) ==
    LET ae == IF a.e > b.e - 64 THEN a.e ELSE b.e - 64
        be == IF b.e > a.e - 64 THEN b.e ELSE a.e - 64
    IN  IF a.kind = "nan" \/ b.kind = "nan" THEN NaN
        ELSE IF a.kind = "inf" THEN (IF b.kind = "inf" /\ a.neg # b.neg THEN NaN ELSE a)
        ELSE IF b.kind = "inf" THEN b
        ELSE IF a.m = <<>> /\ b.m = <<>> THEN Zero(a.neg /\ b.neg)
        ELSE IF a.m = <<>> THEN b
        ELSE IF b.m = <<>> THEN a
        ELSE AddAt(a, ae, b, be, IF ae < be THEN ae ELSE be)

\* a * b
DMul(a, b) ==
    LET IsZero(x) == x.kind = "finite" /\ x.m = <<>>
    IN  IF a.kind = "nan" \/ b.kind = "nan" THEN NaN
        ELSE IF a.kind = "inf" \/ b.kind = "inf"
             THEN (IF IsZero(a) \/ IsZero(b) THEN NaN ELSE Inf(a.neg # b.neg))
        ELSE Round(a.neg # b.neg, Mul(a.m, b.m), a.e + b.e, FALSE)

\* the double nearest to (-1)^neg * (d.q + f) * 2^e, f > 0 iff d.sticky
Rounded(neg, d, e) == Round(neg, d.q, e, d.sticky)

\* a / n for an integer n in 1..Base-1
DDivInt(a, n) ==
    IF a.kind # "finite" \/ a.m = <<>> THEN a
    ELSE Rounded(a.neg, DivMod(Shl(a.m, 73 - BitLen(a.m)), n),
                 a.e - (73 - BitLen(a.m)))

\* n / 10^k and whether a digit was lost
RECURSIVE Div10(_, _, _)
Div10(n, k, sticky) ==
    IF k <= 4 THEN Quotient(DivLimbs(n, 10 ^ k, 0), sticky)
    ELSE LET first == Div10(n, k \div 2, sticky)
         IN  IF first.q = <<>> THEN first
             ELSE Div10(first.q, k - k \div 2, first.sticky)

RECURSIVE Mul10(_, _)
Mul10(n, k) ==
    IF k <= 4 THEN MulC(n, 10 ^ k, 0)
    ELSE LET first == Mul10(n, k \div 2)
         IN  IF first = <<>> THEN first ELSE Mul10(first, k - k \div 2)

\* the double nearest to (-1)^neg * n * 10^e10, what float() makes of a
\* decimal numeral
DFromDecimal(neg, n, e10) ==
    LET k == IF 60 - 4 * e10 - BitLen(n) > 0 THEN 60 - 4 * e10 - BitLen(n) ELSE 0
    IN  IF n = <<>> THEN Zero(neg)
        ELSE IF e10 > 330 THEN Inf(neg)
        ELSE IF e10 < 0 /\ BitLen(n) + 3 * e10 < -1076 THEN Zero(neg)
        ELSE Rounded(neg,
                     IF e10 >= 0 THEN [q |-> Mul10(n, e10), sticky |-> FALSE]
                     ELSE Div10(Shl(n, k), 0 - e10, FALSE),
                     IF e10 >= 0 THEN 0 ELSE 0 - k)

DFromInt(n) == Round(n < 0, Big(IF n < 0 THEN 0 - n ELSE n), 0, FALSE)

\* int(a) of a finite double: truncation towards zero
DToInt(a) ==
    (IF a.neg THEN -1 ELSE 1)
    * Small(IF a.e >= 0 THEN Shl(a.m, a.e) ELSE Shr(a.m, 0 - a.e).q)

\* the size of a double that is not a NaN: its class, the position of its
\* leading bit and its mantissa made 53 bits long
Magnitude(x) ==
    IF x.kind = "inf" THEN <<2, 0, <<>>>>
    ELSE IF x.m = <<>> THEN <<0, 0, <<>>>>
    ELSE <<1, x.e + BitLen(x.m), Shl(x.m, 53 - BitLen(x.m))>>

MagnitudeLess(x, y) ==
    \/ x[1] < y[1]
    \/ x[1] = y[1] /\ x[2] < y[2]
    \/ x[1] = y[1] /\ x[2] = y[2] /\ Cmp(x[3], y[3]) < 0

\* a < b, false when either is a NaN
DLess(a, b) ==
    LET IsZero(x) == x.kind = "finite" /\ x.m = <<>>
    IN  /\ a.kind # "nan" /\ b.kind # "nan"
        /\ ~(IsZero(a) /\ IsZero(b))
        /\ IF a.neg # b.neg THEN a.neg
           ELSE MagnitudeLess(Magnitude(IF a.neg THEN b ELSE a),
                              Magnitude(IF a.neg THEN a ELSE b))

\* a decimal literal of the code: n / 10^places
Decimal(n, places) == DFromDecimal(FALSE, Big(n), 0 - places)

\* sum(xs) of doubles: 0 + xs[1] + xs[2] + ..., from left to right
RECURSIVE DSum(_)
DSum(xs) ==
    IF xs = <<>> THEN Zero(FALSE)
    ELSE DAdd(DSum(SubSeq(xs, 1, Len(xs) - 1)), xs[Len(xs)])

\* a <= b
DLessEq(a, b) == a.kind # "nan" /\ b.kind # "nan" /\ ~DLess(b, a)

\* n * 2^e to the nearest whole number, halves upwards
Whole(n, e) ==
    IF e >= 0 THEN Small(Shl(n, e)) ELSE (Small(Shr(n, 0 - e - 1).q) + 1) \div 2

\* a finite double as the nearest whole number of units of 1/Scale
Fixed(a) == (IF a.neg THEN -1 ELSE 1) * Whole(Mul(a.m, Big(Scale)), a.e)

\* int(x * 100), x a double
Percent(x) == DToInt(DMul(x, DFromInt(100)))

\* ------------------------------------------------------------ dict, list
EmptyDict == [k \in {} |-> 0]

\* dict.update(u): keys of u overwrite
Update(d, u) == [k \in (DOMAIN d) \cup (DOMAIN u) |->
                    IF k \in DOMAIN u THEN u[k] ELSE d[k]]

\* d.get(k, {})
Get(d, k) == IF k \in DOMAIN d THEN d[k] ELSE EmptyDict

Single(k, v) == [x \in {k} |-> v]

RECURSIVE SeqToBag(_)
SeqToBag(s) == IF s = <<>> THEN EmptyBag
               ELSE SetToBag({Head(s)}) (+) SeqToBag(Tail(s))

\* s[:n]
Take(s, n) == SubSeq(s, 1, IF Len(s) < n THEN Len(s) ELSE n)

\* a value found under a key of an analyzer result: kind "absent" (key not
\* in the dict), "list", "dict", or "bad" (null or another JSON shape)
Absent == [kind |-> "absent", items |-> <<>>, map |-> EmptyDict]
ListV(xs) == [kind |-> "list", items |-> xs, map |-> EmptyDict]
DictV(m) == [kind |-> "dict", items |-> <<>>, map |-> m]
BadV == [kind |-> "bad", items |-> <<>>, map |-> EmptyDict]
\* a JSON string, held as the sequence of its characters
StrV(chars) == [kind |-> "str", items |-> chars, map |-> EmptyDict]

\* what a future yields: an exception, a non-dict value, or a dict
Result(rf, vr, iar, ovr) ==
    [tag |-> "dict", risk_factors |-> rf, verification_results |-> vr,
     image_analysis_results |-> iar, online_verification_results |-> ovr]
EmptyResult == Result(Absent, Absent, Absent, Absent)
NonDict == [EmptyResult EXCEPT !.tag = "nondict"]
Raised == [EmptyResult EXCEPT !.tag = "raised"]
Pending == [EmptyResult EXCEPT !.tag = "pending"]

\* ------------------------------------------------------------ expense store
\* the category column of an expense row: key missing, null, or a string
NoCategory == [kind |-> "missing", s |-> ""]
Cat(s) == [kind |-> "str", s |-> s]

\* rows of the expenses table, by id
ExpenseRows ==
    [e_nokey |-> [category |-> NoCategory],
     e_null |-> [category |-> [kind |-> "null", s |-> ""]],
     e_empty |-> [category |-> Cat("")],
     e_food |-> [category |-> Cat("food")],
     e_Food |-> [category |-> Cat("Food")],
     e_travel |-> [category |-> Cat("travel")],
     e_misc |-> [category |-> Cat("misc")]]

NoExpense == [found |-> FALSE, category |-> NoCategory]

\* the value None of expense_category, and `not category`
NoneStr == "<None>"
Falsy(category) == category \in {"", NoneStr}

\* str.lower() on the category strings of the table
Lower(s) == CASE s = "Food" -> "food"
              [] s = "FOOD" -> "food"
              [] s = "Travel" -> "travel"
              [] s = "Hotel" -> "hotel"
              [] OTHER -> s

\* _get_expense_data: None when the client is absent, the query raises or
\* no row matches; else the first row
_get_expense_data(client, id, queryRaises) ==
    IF ~client THEN NoExpense
    ELSE IF queryRaises THEN NoExpense
    ELSE IF id \in DOMAIN ExpenseRows
         THEN [found |-> TRUE, category |-> ExpenseRows[id].category]
         ELSE NoExpense

\* --------------------------------------------------------------- analyzers
Analyzers == {"llm", "image", "online", "pattern"}

\* replies of the reasoning service to the judgment request: the call or
\* the JSON decoding fails, a JSON value that is not an object, an object
\* with the values the service puts under risk_factors and
\* verification_results
LLMReplies ==
    LET LLMRiskFactors == {Absent, BadV, ListV(<<"altered total">>)}
        LLMVerification ==
            {Absent, BadV,
             DictV(Single("food_verification", [price_discrepancy |-> 60])),
             DictV(Single("travel_verification",
                          [price_discrepancy |-> 0 - 30,
                           route_verification |-> FALSE])),
             DictV(Single("pattern_analysis",
                          [unusual_amounts |-> [llm |-> TRUE]]))}
    IN {[ok |-> FALSE, value |-> EmptyResult], [ok |-> TRUE, value |-> NonDict]}
       \cup {[ok |-> TRUE, value |-> Result(rf, vr, Absent, Absent)] :
                rf \in LLMRiskFactors, vr \in LLMVerification}

\* _llm_analysis: {} without a client or on any exception, else the parsed
\* reply as it is
_llm_analysis(client, reply) ==
    IF ~client THEN EmptyResult
    ELSE IF ~reply.ok THEN EmptyResult
    ELSE reply.value

\* the entries of the four stages for an image every stage gets through,
\* whose classical transcript has confidence 0.75 and on which the two OCR
\* paths agree.  With a reasoning client the model-based path reports 0.9
\* and is selected (lines 670-680); without one _llm_ocr_analysis returns
\* {} and the combined confidence is the classical one
ImageStages(groq) ==
    [image_quality |-> [quality_assessment |-> "Good quality"],
     ocr_analysis |->
         [tesseract_analysis |-> [best_result |-> [confidence |-> 3 * (Scale \div 4)]],
          llm_analysis |-> IF groq THEN [confidence_score |-> 9 * Tenth]
                           ELSE EmptyDict,
          combined_analysis |->
              [confidence_score |-> IF groq THEN 9 * Tenth
                                    ELSE 3 * (Scale \div 4)]],
     manipulation_indicators |-> <<"Possible copy-move forgery detected">>,
     text_pattern_analysis |-> [suspicious_patterns |-> <<>>]]

\* _image_analysis: {} when the download or the decoding of the image
\* raises, else the entries of the four stages under image_analysis_results
_image_analysis(fails, results) ==
    IF fails THEN EmptyResult
    ELSE Result(Absent, Absent, DictV(results), Absent)

\* _verify_vendor, _verify_amount, _verify_date
_verify_vendor == EmptyDict
_verify_amount == EmptyDict
_verify_date == EmptyDict

\* _online_verification
_online_verification ==
    Result(Absent, Absent, Absent,
           DictV([vendor_verification |-> _verify_vendor,
                  amount_verification |-> _verify_amount,
                  date_verification |-> _verify_date]))

\* _convert_patterns_to_risk_factors
_convert_patterns_to_risk_factors(patterns) == <<>>

\* _pattern_analysis: {} without user id, client or history, or when the
\* query raises; else the three pattern checks
_pattern_analysis(client, hasHistory) ==
    IF ~client \/ ~hasHistory THEN EmptyResult
    ELSE LET patterns == [unusual_amounts |-> EmptyDict,
                          frequency_patterns |-> EmptyDict,
                          vendor_patterns |-> EmptyDict]
         IN Result(ListV(_convert_patterns_to_risk_factors(patterns)),
                   DictV(Single("pattern_analysis", patterns)),
                   Absent, Absent)

\* what the future of analyzer a can yield: the task's return value, or an
\* exception that escaped the task
Outcomes(a, groq, db) ==
    {Raised} \cup
    CASE a = "llm" -> {_llm_analysis(groq, r) : r \in LLMReplies}
      [] a = "image" -> {_image_analysis(f, stages) :
                            f \in BOOLEAN,
                            stages \in {ImageStages(groq),
                                        [ImageStages(groq) EXCEPT
                                            !.ocr_analysis = EmptyDict]}}
      [] a = "online" -> {_online_verification}
      [] a = "pattern" -> {_pattern_analysis(db, h) : h \in BOOLEAN}

\* ------------------------------------------------------------------- merge
\* the detector's four accumulating fields
Acc(rf, vr, iar, ovr) ==
    [risk_factors |-> rf, verification_results |-> vr,
     image_analysis_results |-> iar, online_verification_results |-> ovr]

\* one `if key in result: self.field.update(result[key])`.  dict.update
\* takes a mapping, or an iterable of pairs: of a list and of the
\* characters of a string it takes the elements one after the other, an
\* element of two members (a list of two, or a string of two characters)
\* being a key and its value, and raises at the first element of another
\* length, the pairs before it staying in the field; an empty list or
\* string changes nothing; a value that is not iterable raises
MergeMap(st, r, key) ==
    LET v == r[key]
        good == {i \in 1..Len(v.items) :
                    \A j \in 1..i : Len(v.items[j]) = 2}
        LastOf(k) == CHOOSE i \in good :
                        /\ Head(v.items[i]) = k
                        /\ \A j \in good : j > i => Head(v.items[j]) # k
        Second(pair) == Head(Tail(pair))
        pairs == [k \in {Head(v.items[i]) : i \in good} |->
                     Second(v.items[LastOf(k)])]
    IN  IF ~st.ok \/ v.kind = "absent" THEN st
        ELSE IF v.kind = "dict"
             THEN [st EXCEPT !.acc[key] = Update(@, v.map)]
        ELSE IF v.kind \in {"list", "str"}
             THEN [st EXCEPT !.acc[key] = Update(@, pairs),
                             !.ok = Cardinality(good) = Len(v.items)]
        ELSE [st EXCEPT !.ok = FALSE]

\* `if 'risk_factors' in result: self.risk_factors.extend(...)`: extend
\* takes the elements of a list, the characters of a string and the keys of
\* a mapping (in the order v.items gives when it holds them; a mapping of
\* one key has one order); a value that is not iterable raises
MergeList(st, r) ==
    LET v == r.risk_factors
        n == Cardinality(DOMAIN v.map)
        keys == IF Len(v.items) = n THEN v.items
                ELSE CHOOSE q \in [1..n -> DOMAIN v.map] :
                        \A i, j \in 1..n : i # j => q[i] # q[j]
    IN  IF ~st.ok \/ v.kind = "absent" THEN st
        ELSE IF v.kind \in {"list", "str"}
             THEN [st EXCEPT !.acc.risk_factors = @ \o v.items]
        ELSE IF v.kind = "dict"
             THEN [st EXCEPT !.acc.risk_factors = @ \o keys]
        ELSE [st EXCEPT !.ok = FALSE]

\* body of the as_completed loop for one future: future.result() raising,
\* and a raising merge statement, leave the loop body at that point
MergeResult(acc, r) ==
    IF r.tag # "dict" THEN acc
    ELSE LET s0 == [acc |-> acc, ok |-> TRUE]
             s1 == MergeList(s0, r)
             s2 == MergeMap(s1, r, "verification_results")
             s3 == MergeMap(s2, r, "image_analysis_results")
             s4 == MergeMap(s3, r, "online_verification_results")
         IN s4.acc

\* the merge of the category verifier's result after the loop: only
\* risk_factors and verification_results; a raise leaves analyze_receipt
MergeCategory(acc, r) ==
    IF r.tag # "dict" THEN [acc |-> acc, ok |-> TRUE]
    ELSE MergeMap(MergeList([acc |-> acc, ok |-> TRUE], r),
                  r, "verification_results")

\* ------------------------------------------------------- category verifier
\* names of the four verification tools of _get_verification_tools
_get_verification_tools ==
    {"search_vendor_info", "check_pricing", "verify_location",
     "check_operating_hours"}

\* a tool call of the reasoning service: a name and whether the optional
\* address and coordinates arguments are given
ToolCall(n, a, c) == [name |-> n, address |-> a, coordinates |-> c]

ToolCalls ==
    {ToolCall(n, FALSE, FALSE) :
        n \in (_get_verification_tools \cup {"get_weather"}) \ {"verify_location"}}
    \cup {ToolCall("verify_location", TRUE, FALSE),
          ToolCall("verify_location", FALSE, TRUE)}

RECURSIVE SeqsUpTo(_, _)
SeqsUpTo(S, n) ==
    IF n = 0 THEN {<<>>}
    ELSE LET shorter == SeqsUpTo(S, n - 1)
         IN shorter \cup {Append(q, x) : q \in shorter, x \in S}

\* replies of the reasoning service to the tool-augmented request: the call
\* fails, or a message with a list of tool calls
ToolReplies ==
    {[ok |-> FALSE, tool_calls |-> <<>>]}
    \cup {[ok |-> TRUE, tool_calls |-> q] : q \in SeqsUpTo(ToolCalls, MaxToolCalls)}

\* _get_category_specific_prompt: prompts.get(category)
_get_category_specific_prompt(category) ==
    IF category \in {"travel", "hotel", "food"} THEN category ELSE "None"

_search_vendor_info ==
    [vendor_exists |-> TRUE, business_type |-> "Restaurant", rating |-> 45,
     reviews_count |-> 100, verified |-> TRUE]

_check_pricing ==
    [price_range |-> [min |-> 50, max |-> 100, average |-> 75],
     currency |-> "USD", last_updated |-> "now", source |-> "Online API"]

\* address_match and coordinates_match are True or None; distance 0.1 km is
\* held in tenths of a km
_verify_location(address, coordinates) ==
    [location_verified |-> TRUE,
     address_match |-> IF address THEN "True" ELSE "None",
     coordinates_match |-> IF coordinates THEN "True" ELSE "None",
     distance |-> 1]

_check_operating_hours ==
    [was_open |-> TRUE, operating_hours |-> [open |-> "09:00", close |-> "22:00"],
     special_hours |-> FALSE, holiday |-> FALSE]

\* the key of verification_results a tool writes, "" for an unknown tool
ToolKey(name) ==
    CASE name = "search_vendor_info" -> "vendor_info"
      [] name = "check_pricing" -> "pricing_info"
      [] name = "verify_location" -> "location_info"
      [] name = "check_operating_hours" -> "operating_hours"
      [] OTHER -> ""

\* the local execution of one tool call
RunTool(tc) ==
    CASE tc.name = "search_vendor_info" -> _search_vendor_info
      [] tc.name = "check_pricing" -> _check_pricing
      [] tc.name = "verify_location" -> _verify_location(tc.address, tc.coordinates)
      [] tc.name = "check_operating_hours" -> _check_operating_hours
      [] OTHER -> EmptyDict

\* d.get(k) is truthy, for a field holding True or False
IsTrue(d, k) == k \in DOMAIN d /\ d[k] = TRUE

\* the average of the eight increments whatever tools were called
_calculate_verification_confidence_ungated(vr) ==
    Average(<<10 * Tenth, 8 * Tenth, 9 * Tenth, 7 * Tenth,
              10 * Tenth, 8 * Tenth, 9 * Tenth, 7 * Tenth>>)

\* _calculate_verification_confidence: average of the gated increments; a
\* field a tool result does not hold reads as None
_calculate_verification_confidence(vr) ==
    LET vendor == IF "vendor_info" \in DOMAIN vr
                  THEN (IF IsTrue(vr["vendor_info"], "vendor_exists")
                        THEN <<10 * Tenth>> ELSE <<>>)
                       \o (IF IsTrue(vr["vendor_info"], "verified")
                           THEN <<8 * Tenth>> ELSE <<>>)
                  ELSE <<>>
        pricing == IF "pricing_info" \in DOMAIN vr
                   THEN (IF "price_range" \in DOMAIN vr["pricing_info"]
                            /\ vr["pricing_info"].price_range # EmptyDict
                         THEN <<9 * Tenth>> ELSE <<>>)
                        \o (IF "last_updated" \in DOMAIN vr["pricing_info"]
                               /\ vr["pricing_info"].last_updated # ""
                            THEN <<7 * Tenth>> ELSE <<>>)
                   ELSE <<>>
        location == IF "location_info" \in DOMAIN vr
                    THEN (IF IsTrue(vr["location_info"], "location_verified")
                          THEN <<10 * Tenth>> ELSE <<>>)
                         \o (IF "address_match" \in DOMAIN vr["location_info"]
                                /\ vr["location_info"].address_match = "True"
                             THEN <<8 * Tenth>> ELSE <<>>)
                    ELSE <<>>
        hours == IF "operating_hours" \in DOMAIN vr
                 THEN (IF IsTrue(vr["operating_hours"], "was_open")
                       THEN <<9 * Tenth>> ELSE <<>>)
                      \o (IF ~IsTrue(vr["operating_hours"], "special_hours")
                          THEN <<7 * Tenth>> ELSE <<>>)
                 ELSE <<>>
    IN Average(vendor \o pricing \o location \o hours)

\* _extract_risk_factors_from_verification
_extract_risk_factors_from_verification(vr, category) ==
    LET vendor == IF "vendor_info" \in DOMAIN vr
                  THEN (IF ~vr["vendor_info"].vendor_exists
                        THEN <<"Vendor " \o category \o " not found in online databases">> ELSE <<>>)
                       \o (IF ~vr["vendor_info"].verified
                           THEN <<"Vendor " \o category \o " verification status unclear">> ELSE <<>>)
                  ELSE <<>>
        pricing == IF "pricing_info" \in DOMAIN vr
                      /\ "price_range" \in DOMAIN vr["pricing_info"]
                      /\ vr["pricing_info"].price_range.min # 0
                      /\ vr["pricing_info"].price_range.max # 0
                   THEN <<"Price outside typical range for " \o category>>
                   ELSE <<>>
        location == IF "location_info" \in DOMAIN vr
                    THEN (IF ~vr["location_info"].location_verified
                          THEN <<"Location verification failed for " \o category>> ELSE <<>>)
                         \o (IF vr["location_info"].distance > 10
                             THEN <<"Location significantly different from expected for " \o category>>
                             ELSE <<>>)
                    ELSE <<>>
        hours == IF "operating_hours" \in DOMAIN vr
                 THEN (IF ~vr["operating_hours"].was_open
                       THEN <<category \o " was not operating at the specified time">> ELSE <<>>)
                      \o (IF vr["operating_hours"].special_hours
                          THEN <<"Transaction occurred during special hours for " \o category>>
                          ELSE <<>>)
                 ELSE <<>>
    IN vendor \o pricing \o location \o hours

\* the tool-call loop of _make_online_verification_call: each call is
\* executed, stored under its key, and logged with
\* results['verification_results'].get(tool_name + '_info', {})
RECURSIVE ToolLoop(_, _)
ToolLoop(calls, res) ==
    IF calls = <<>> THEN res
    ELSE LET tc == Head(calls)
             vr == IF ToolKey(tc.name) = "" THEN res.verification_results
                   ELSE Update(res.verification_results,
                               Single(ToolKey(tc.name), RunTool(tc)))
             entry == [tool_name |-> tc.name, arguments |-> tc,
                       result |-> Get(vr, tc.name \o "_info")]
         IN ToolLoop(Tail(calls),
                     [res EXCEPT !.verification_results = vr,
                                 !.tool_calls = Append(@, entry)])

\* _make_online_verification_call: {} without a client or when the request
\* raises; else the results of the tool-call loop with their confidence
_make_online_verification_call(client, reply) ==
    IF ~client \/ ~reply.ok
    THEN [empty |-> TRUE, verification_results |-> EmptyDict,
          tool_calls |-> <<>>, confidence_score |-> 0]
    ELSE LET res == ToolLoop(reply.tool_calls,
                             [empty |-> FALSE, verification_results |-> EmptyDict,
                              tool_calls |-> <<>>, confidence_score |-> 0])
         IN [res EXCEPT !.confidence_score =
                _calculate_verification_confidence(res.verification_results)]

\* `await x` on the value of a plain (non-async) function: the dict is not
\* awaitable and the await expression raises TypeError
AwaitRaises == TRUE

\* _category_specific_verification, given the detector's accumulating
\* fields and the reply of the reasoning service.  requested: the request to
\* the service was issued; tool_calls, tool_results: the tool calls executed
\* locally and what they returned; ret: the returned dict; acc: the
\* detector's fields afterwards
_category_specific_verification(client, category, acc, reply) ==
    LET none == [requested |-> FALSE, tool_calls |-> <<>>,
                 tool_results |-> EmptyDict, confidence_score |-> 0,
                 ret |-> EmptyResult, acc |-> acc]
        call == _make_online_verification_call(client, reply)
        made == [none EXCEPT !.requested = TRUE, !.tool_calls = call.tool_calls,
                             !.tool_results = call.verification_results]
        vr == call.verification_results
    IN IF ~client THEN none
       ELSE IF Falsy(category) THEN none
       ELSE IF _get_category_specific_prompt(category) = "None" THEN none
       ELSE IF AwaitRaises THEN made
       ELSE IF call.empty THEN made
       ELSE [made EXCEPT
               !.confidence_score = call.confidence_score,
               !.ret = Result(Absent, DictV(vr), Absent, Absent),
               !.acc = Acc(acc.risk_factors
                              \o _extract_risk_factors_from_verification(vr, category),
                           IF vr = EmptyDict THEN acc.verification_results
                           ELSE Update(acc.verification_results,
                                       Single(category \o "_verification", vr)),
                           acc.image_analysis_results,
                           acc.online_verification_results)]

\* ----------------------------------------------------------------- scoring
\* the weights of llm_analysis and category_specific exchanged
weights_exchanged ==
    [llm_analysis |-> 20, image_analysis |-> 25, online_verification |-> 15,
     pattern_analysis |-> 10, category_specific |-> 30]

weights ==
    [llm_analysis |-> 30, image_analysis |-> 25, online_verification |-> 15,
     pattern_analysis |-> 10, category_specific |-> 20]

\* the stubs return 0.0
_get_llm_risk_score == Zero(FALSE)
_get_image_risk_score == Zero(FALSE)
_get_verification_risk_score == Zero(FALSE)
_get_pattern_risk_score == Zero(FALSE)
_get_verification_confidence == Zero(FALSE)

Abs(x) == IF x < 0 THEN 0 - x ELSE x

\* a check that is present in the mapping and falsy
Failed(v, k) == k \in DOMAIN v /\ ~v[k]

\* _get_category_specific_risk_score: sum(risk_factors) / len(risk_factors)
\* of the risk values found in verification_results[category +
\* "_verification"], in the order they are appended; 0.0 when there is none
\* (price_discrepancy in hundredths; the risk values are the literals 1.0,
\* 0.7, 0.4, 0.8, 0.6, 0.7 and 0.5, written here in tenths)
_get_category_specific_risk_score(category, verification_results) ==
    LET v == Get(verification_results, category \o "_verification")
        price == IF "price_discrepancy" \in DOMAIN v
                 THEN (IF Abs(v.price_discrepancy) > 50 THEN <<10>>
                       ELSE IF Abs(v.price_discrepancy) > 20 THEN <<7>>
                       ELSE IF Abs(v.price_discrepancy) > 10 THEN <<4>>
                       ELSE <<>>)
                 ELSE <<>>
        place == IF Failed(v, "location_verification") THEN <<8>>
                 ELSE IF Failed(v, "route_verification") THEN <<8>>
                 ELSE <<>>
        time == IF Failed(v, "time_verification") THEN <<6>>
                ELSE IF Failed(v, "date_verification") THEN <<6>>
                ELSE <<>>
        service == IF Failed(v, "service_verification") THEN <<7>>
                   ELSE IF Failed(v, "restaurant_verification") THEN <<7>>
                   ELSE <<>>
        menu == IF category = "food" /\ Failed(v, "menu_verification")
                THEN <<5>> ELSE <<>>
        risk_factors == price \o place \o time \o service \o menu
    IN IF Falsy(category) THEN Zero(FALSE)
       ELSE IF v = EmptyDict THEN Zero(FALSE)
       ELSE IF risk_factors = <<>> THEN Zero(FALSE)
       ELSE DDivInt(DSum([i \in 1..Len(risk_factors) |-> Decimal(risk_factors[i], 1)]),
                    Len(risk_factors))

\* the five category scores of _calculate_risk_score
CategoryScores(category, verification_results) ==
    [llm_analysis |-> _get_llm_risk_score,
     image_analysis |-> _get_image_risk_score,
     online_verification |-> _get_verification_risk_score,
     pattern_analysis |-> _get_pattern_risk_score,
     category_specific |->
         _get_category_specific_risk_score(category, verification_results)]

\* sum(score * weights[category] for category, score in scores.items()),
\* the items in the order the dict was written; the weights are the
\* literals 0.3, 0.25, 0.15, 0.1 and 0.2
WeightedSum(scores) ==
    LET written == <<"llm_analysis", "image_analysis", "online_verification",
                     "pattern_analysis", "category_specific">>
    IN  DSum([i \in 1..5 |-> DMul(scores[written[i]], Decimal(weights[written[i]], 2))])

_calculate_risk_score(category, verification_results) ==
    WeightedSum(CategoryScores(category, verification_results))

\* the blend with its weights written as percentages
BlendPercent(risk_score, verification_confidence) ==
    DAdd(DMul(risk_score, DFromInt(70)), DMul(verification_confidence, DFromInt(30)))

\* (risk_score * 0.7) + (verification_confidence * 0.3)
Blend(risk_score, verification_confidence) ==
    DAdd(DMul(risk_score, Decimal(7, 1)), DMul(verification_confidence, Decimal(3, 1)))

_calculate_fraud_probability(category, verification_results) ==
    Blend(_calculate_risk_score(category, verification_results),
          _get_verification_confidence)

\* a JSON string found where the code expects a mapping
JsonStr(s) == [json_string |-> s]
IsMapping(v) == "json_string" \notin DOMAIN v

\* what _generate_summary returns from its handler
ErrorSummary == [error |-> "Error generating summary"]

\* _generate_summary: the label, the two percentages, the first three risk
\* factors, the date and amount highlights and the first two manipulation
\* indicators; .get on a value that is not a mapping raises
_generate_summary(overall_risk_score, fraud_probability, acc) ==
    LET vr == acc.verification_results
        iar == acc.image_analysis_results
        hasDates == "inconsistent_dates" \in DOMAIN vr
        hasAmount == "amount_verification" \in DOMAIN vr
        raises == \/ hasDates /\ ~IsMapping(vr["inconsistent_dates"])
                  \/ hasAmount /\ ~IsMapping(vr["amount_verification"])
        dates == IF hasDates /\ "date_mismatch" \in DOMAIN vr["inconsistent_dates"]
                             /\ vr["inconsistent_dates"].date_mismatch
                 THEN <<"Date mismatch detected">> ELSE <<>>
        amount == IF hasAmount
                     /\ ("amount_match" \notin DOMAIN vr["amount_verification"]
                           \/ ~vr["amount_verification"].amount_match)
                  THEN <<"Amount mismatch detected">> ELSE <<>>
        Summary(fraud_percentage, risk_percentage) ==
            [assessment |-> IF fraud_percentage >= 80 THEN "HIGH RISK"
                            ELSE IF fraud_percentage >= 50 THEN "MODERATE RISK"
                            ELSE "LOW RISK",
             fraud_percentage |-> fraud_percentage,
             risk_percentage |-> risk_percentage,
             factors |-> Take(acc.risk_factors, 3),
             highlights |-> dates \o amount,
             indicators |-> IF "manipulation_indicators" \in DOMAIN iar
                            THEN Take(iar["manipulation_indicators"], 2)
                            ELSE <<>>]
    IN IF raises THEN ErrorSummary
       ELSE Summary(Percent(fraud_probability), Percent(overall_risk_score))

\* ------------------------------------------------------------------ state
VARIABLES
    groq_client,                  \* module global: the reasoning client is configured
    supabase,                     \* module global: the store client is configured
    receipt_fraud_checks,         \* rows inserted into the receipt_fraud_checks table
    risk_factors,                 \* self.risk_factors
    verification_results,         \* self.verification_results
    image_analysis_results,       \* self.image_analysis_results
    online_verification_results,  \* self.online_verification_results
    expense_category,             \* self.expense_category
    pc,                           \* position of analyze_receipt
    runs,                         \* analyze_receipt invocations started on this detector
    expense_id,                   \* argument: the id asked for
    expense_data,                 \* local: the looked-up row
    futures,                      \* local: what each submitted future yields
    merged,                       \* futures the as_completed loop has consumed
    category_verification,        \* local: outcome of the category verifier
    scores,                       \* locals: overall_risk_score, fraud_probability, summary
    result_id,                    \* local: id returned by _store_fraud_check_results
    inserts,                      \* store inserts attempted by this invocation
    returned,                     \* value returned to the caller
    earlier,                      \* values returned by earlier invocations
    writes,                       \* fields of the detector written in this invocation, by thread
    call,                         \* the last call of a function on its own: name, arguments, value
    verifier,                     \* one _category_specific_verification followed step by step
    server                        \* the chat server: marked databases, threads, exit

vars == <<groq_client, supabase, receipt_fraud_checks, risk_factors,
          verification_results, image_analysis_results,
          online_verification_results, expense_category, pc, runs,
          expense_id, expense_data, futures, merged, category_verification, scores,
          result_id, inserts, returned, earlier, writes, call, verifier, server>>

globals == <<groq_client, supabase>>
\* what is run apart from analyze_receipt
apart == <<call, verifier, server>>
fields == <<risk_factors, verification_results, image_analysis_results,
            online_verification_results>>

\* the thread that runs analyze_receipt and the category verifier; the
\* thread of a pool task is named after its analyzer
MainThread == "MainThread"

Write(field, thread) == [field |-> field, thread |-> thread]

\* the keys of a result in the order the merge looks at them
KeyOrder == <<"risk_factors", "verification_results", "image_analysis_results",
              "online_verification_results">>

\* the fields the merge of result r writes when it looks at the first n
\* keys: those present, up to the first whose merge raises; that one too
\* when pairs went into the field before the raise
MergedKeys(r, n) ==
    LET blank == [acc |-> Acc(<<>>, EmptyDict, EmptyDict, EmptyDict), ok |-> TRUE]
        After(k) == IF k = "risk_factors" THEN MergeList(blank, r)
                    ELSE MergeMap(blank, r, k)
        Written(k) == After(k).ok \/ After(k).acc # blank.acc
    IN  IF r.tag # "dict" THEN {}
        ELSE {KeyOrder[i] : i \in {j \in 1..n :
                  /\ r[KeyOrder[j]].kind # "absent"
                  /\ Written(KeyOrder[j])
                  /\ \A h \in 1..(j - 1) :
                        r[KeyOrder[h]].kind = "absent" \/ After(KeyOrder[h]).ok}}

\* a pattern task that appends its risk factors to the detector's list itself
WorkerWrites_accumulating(a, outcome) ==
    IF a = "pattern" /\ outcome.tag = "dict"
    THEN {Write("risk_factors", a)}
    ELSE {}

\* the four attributes _enhanced_ocr_analysis stores (lines 517-520), as
\* writes of the thread that runs it
OcrTexts(thread) ==
    {Write(f, thread) : f \in {"original_text", "enhanced_text", "llm_ocr_text",
                               "llm_structured_data"}}

\* the detector fields the task of analyzer a has written from its pool
\* thread when it returns outcome: the image task has stored the four OCR
\* texts when its OCR stage got through
WorkerWrites(a, outcome) ==
    IF /\ a = "image"
       /\ outcome.tag = "dict"
       /\ outcome.image_analysis_results.kind = "dict"
       /\ "ocr_analysis" \in DOMAIN outcome.image_analysis_results.map
       /\ outcome.image_analysis_results.map["ocr_analysis"] # EmptyDict
    THEN OcrTexts(a)
    ELSE {}

\* the detector fields the category verifier writes at lines 304 and 313,
\* which it reaches when the awaited call gave its results
VerifierWrites(v) ==
    IF v.ret.tag = "dict" /\ v.ret.verification_results.kind = "dict"
    THEN {Write("risk_factors", MainThread)}
         \cup (IF v.tool_results # EmptyDict
               THEN {Write("verification_results", MainThread)} ELSE {})
    ELSE {}

\* no function has been called on its own
NoCall == [fn |-> "none", args |-> EmptyDict, out |-> EmptyDict]

NoneId == [some |-> FALSE, n |-> 0]
Id(n) == [some |-> TRUE, n |-> n]

NotReturned == [none |-> TRUE]
NoScores == [overall_risk_score |-> Zero(FALSE), fraud_probability |-> Zero(FALSE),
             summary |-> EmptyDict]
NotVerified == [requested |-> FALSE, tool_calls |-> <<>>,
                tool_results |-> EmptyDict, confidence_score |-> 0,
                ret |-> Pending, acc |-> EmptyDict]

\* an exception that leaves analyze_receipt and reaches the caller
Propagated(e) == [error |-> e]

\* the detector's accumulating fields as one record
Self == Acc(risk_factors, verification_results, image_analysis_results,
            online_verification_results)

SetSelf(acc) ==
    /\ risk_factors' = acc.risk_factors
    /\ verification_results' = acc.verification_results
    /\ image_analysis_results' = acc.image_analysis_results
    /\ online_verification_results' = acc.online_verification_results

\* __init__, and the module globals set at import
Init ==
    /\ groq_client \in BOOLEAN
    /\ supabase \in BOOLEAN
    /\ receipt_fraud_checks = <<>>
    /\ risk_factors = <<>>
    /\ verification_results = EmptyDict
    /\ image_analysis_results = EmptyDict
    /\ online_verification_results = EmptyDict
    /\ expense_category = NoneStr
    /\ pc = "idle"
    /\ runs = 0
    /\ expense_id = "None"
    /\ expense_data = NoExpense
    /\ futures = [a \in Analyzers |-> Pending]
    /\ merged = {}
    /\ category_verification = NotVerified
    /\ scores = NoScores
    /\ result_id = NoneId
    /\ inserts = 0
    /\ returned = NotReturned
    /\ earlier = <<>>
    /\ writes = {}
    /\ call = NoCall
    /\ verifier = [pc |-> "idle", category |-> NoneStr, path |-> <<>>,
                   requests |-> 0, asked |-> <<>>, todo |-> <<>>, ran |-> <<>>,
                   results |-> EmptyDict, confidence_score |-> 0,
                   ret |-> Pending]
    /\ server = [dbs_to_delete_on_exit |-> <<>>,
                 threads |-> [t \in 1..2 |-> [pc |-> "idle", vector_db_name |-> ""]],
                 requests |-> 0, exiting |-> FALSE, at_exit |-> <<>>, next |-> 1,
                 cleaned |-> FALSE, deleted |-> <<>>, records_deleted |-> {},
                 responses |-> <<>>]

\* `except Exception: return {}` of analyze_receipt
ReturnEmpty ==
    /\ returned' = EmptyDict
    /\ pc' = "returned"

\* analyze_receipt up to the submission of the four tasks: the lookup, the
\* category, executor.submit x 4.  An invocation after the first is made on
\* the same detector: the fields keep their values, the locals are new
Begin_resetting(id, queryRaises, maxRuns) ==
    /\ pc \in {"idle", "returned"}
    /\ runs < maxRuns
    /\ runs' = runs + 1
    /\ earlier' = IF pc = "returned" THEN Append(earlier, returned) ELSE earlier
    /\ expense_id' = id
    /\ futures' = [a \in Analyzers |-> Pending]
    /\ merged' = {}
    /\ category_verification' = NotVerified
    /\ scores' = NoScores
    /\ result_id' = NoneId
    /\ inserts' = 0
    /\ LET row == _get_expense_data(supabase, id, queryRaises)
       IN /\ expense_data' = row
          /\ IF ~row.found
             THEN ReturnEmpty /\ writes' = {} /\ UNCHANGED expense_category
             ELSE IF row.category.kind = "null"
             THEN ReturnEmpty /\ writes' = {} /\ UNCHANGED expense_category
             ELSE /\ expense_category' = Lower(row.category.s)
                  /\ writes' = {Write("expense_category", MainThread)}
                  /\ pc' = "verify"
                  /\ returned' = NotReturned
    /\ risk_factors' = <<>>
    /\ verification_results' = EmptyDict
    /\ image_analysis_results' = EmptyDict
    /\ online_verification_results' = EmptyDict
    /\ UNCHANGED <<globals, apart, receipt_fraud_checks>>

Begin(id, queryRaises, maxRuns) ==
    /\ pc \in {"idle", "returned"}
    /\ runs < maxRuns
    /\ runs' = runs + 1
    /\ earlier' = IF pc = "returned" THEN Append(earlier, returned) ELSE earlier
    /\ expense_id' = id
    /\ futures' = [a \in Analyzers |-> Pending]
    /\ merged' = {}
    /\ category_verification' = NotVerified
    /\ scores' = NoScores
    /\ result_id' = NoneId
    /\ inserts' = 0
    /\ LET row == _get_expense_data(supabase, id, queryRaises)
       IN /\ expense_data' = row
          /\ IF ~row.found
             THEN ReturnEmpty /\ writes' = {} /\ UNCHANGED expense_category
             ELSE IF row.category.kind = "null"
             THEN ReturnEmpty /\ writes' = {} /\ UNCHANGED expense_category
             ELSE /\ expense_category' = Lower(row.category.s)
                  /\ writes' = {Write("expense_category", MainThread)}
                  /\ pc' = "verify"
                  /\ returned' = NotReturned
    /\ UNCHANGED <<globals, apart, receipt_fraud_checks, fields>>

\* the image task, in its pool thread, gets through its OCR stage and stores
\* the four texts; it goes on with the manipulation and text-pattern stages
\* before it returns
StoreOcrTexts ==
    /\ pc \in {"verify", "merging"}
    /\ futures["image"] = Pending
    /\ OcrTexts("image") \cap writes = {}
    /\ writes' = writes \cup OcrTexts("image")
    /\ UNCHANGED <<globals, apart, receipt_fraud_checks, fields, expense_category, pc,
                   runs, expense_id, expense_data, futures, merged,
                   category_verification, scores, result_id, inserts, returned,
                   earlier>>

\* a worker of the pool finishes its task.  The image task returns its four
\* stage entries after it has stored the OCR texts when its OCR stage got
\* through; it has stored none when it returns {} of a failed download, or
\* the entries of an OCR stage that raised
Complete(a, outcome) ==
    /\ pc \in {"verify", "merging"}
    /\ futures[a] = Pending
    /\ (a = "image" /\ outcome.tag = "dict") =>
           (IF WorkerWrites(a, outcome) = {}
            THEN OcrTexts(a) \cap writes = {}
            ELSE OcrTexts(a) \subseteq writes)
    /\ futures' = [futures EXCEPT ![a] = outcome]
    /\ writes' = writes \cup WorkerWrites(a, outcome)
    /\ UNCHANGED <<globals, apart, receipt_fraud_checks, fields, expense_category, pc,
                   runs, expense_id, expense_data, merged, category_verification, scores,
                   result_id, inserts, returned, earlier>>

\* `category_verification = await self._category_specific_verification(...)`
Verify(reply) ==
    /\ pc = "verify"
    /\ LET v == _category_specific_verification(groq_client, expense_category,
                                                Self, reply)
       IN /\ category_verification' = v
          /\ SetSelf(v.acc)
          /\ writes' = writes \cup VerifierWrites(v)
    /\ pc' = "merging"
    /\ UNCHANGED <<globals, apart, receipt_fraud_checks, expense_category, runs,
                   expense_id, expense_data, futures, merged, scores, result_id, inserts,
                   returned, earlier>>

\* a loop that takes a future up before its task has finished
Merge_unfinished(a) ==
    /\ pc = "merging"
    /\ a \notin merged
    /\ SetSelf(MergeResult(Self, futures[a]))
    /\ writes' = writes \cup {Write(k, MainThread) : k \in MergedKeys(futures[a], 4)}
    /\ merged' = merged \cup {a}
    /\ UNCHANGED <<globals, apart, receipt_fraud_checks, expense_category, pc, runs,
                   expense_id, expense_data, futures, category_verification, scores,
                   result_id, inserts, returned, earlier>>

\* one iteration of `for future in as_completed(futures)`
Merge(a) ==
    /\ pc = "merging"
    /\ a \notin merged
    /\ futures[a] # Pending
    /\ SetSelf(MergeResult(Self, futures[a]))
    /\ writes' = writes \cup {Write(k, MainThread) : k \in MergedKeys(futures[a], 4)}
    /\ merged' = merged \cup {a}
    /\ UNCHANGED <<globals, apart, receipt_fraud_checks, expense_category, pc, runs,
                   expense_id, expense_data, futures, category_verification, scores,
                   result_id, inserts, returned, earlier>>

\* after the loop: the category verifier's result is merged
AddCategory ==
    /\ pc = "merging"
    /\ merged = Analyzers
    /\ LET st == MergeCategory(Self, category_verification.ret)
       IN /\ SetSelf(st.acc)
          /\ writes' = writes \cup {Write(k, MainThread) :
                                      k \in MergedKeys(category_verification.ret, 2)}
          /\ IF st.ok THEN pc' = "score" /\ UNCHANGED returned
             ELSE ReturnEmpty
    /\ UNCHANGED <<globals, apart, receipt_fraud_checks, expense_category, runs,
                   expense_id, expense_data, futures, merged, category_verification,
                   scores, result_id, inserts, earlier>>

\* overall_risk_score, fraud_probability and summary
Score ==
    /\ pc = "score"
    /\ LET Scored(overall_risk_score, fraud_probability) ==
               [overall_risk_score |-> overall_risk_score,
                fraud_probability |-> fraud_probability,
                summary |-> _generate_summary(overall_risk_score, fraud_probability,
                                              Self)]
       IN scores' = Scored(_calculate_risk_score(expense_category, verification_results),
                           _calculate_fraud_probability(expense_category,
                                                        verification_results))
    /\ pc' = "store"
    /\ UNCHANGED <<globals, apart, receipt_fraud_checks, fields, expense_category,
                   runs, expense_id, expense_data, futures, merged, category_verification,
                   result_id, inserts, returned, earlier, writes>>

\* the record _store_fraud_check_results inserts
FraudCheckRow(id) ==
    [id |-> id, expense_id |-> expense_id,
     overall_risk_score |-> scores.overall_risk_score,
     fraud_probability |-> scores.fraud_probability,
     risk_factors |-> risk_factors,
     verification_results |-> verification_results,
     image_analysis_results |-> image_analysis_results,
     online_verification_results |-> online_verification_results]

StoreOutcomes == {"ok", "raises", "nodata"}

\* the store write without its try/except: a raising insert leaves
\* analyze_receipt through its handler
_store_fraud_check_results_unguarded(outcome) ==
    /\ pc = "store"
    /\ inserts' = inserts + 1
    /\ IF outcome = "ok"
       THEN /\ receipt_fraud_checks' =
                  Append(receipt_fraud_checks,
                         [id |-> Id(Len(receipt_fraud_checks) + 1)])
            /\ result_id' = Id(Len(receipt_fraud_checks) + 1)
            /\ pc' = "return"
            /\ UNCHANGED returned
       ELSE /\ ReturnEmpty
            /\ UNCHANGED <<receipt_fraud_checks, result_id>>
    /\ UNCHANGED <<globals, apart, fields, expense_category, runs, expense_id,
                   expense_data, futures, merged, category_verification,
                   scores, earlier, writes>>

\* _store_fraud_check_results: None without a client, when the insert raises
\* or returns no data; else the id of the inserted row
_store_fraud_check_results(outcome) ==
    /\ pc = "store"
    /\ IF ~supabase
       THEN /\ result_id' = NoneId
            /\ UNCHANGED <<receipt_fraud_checks, inserts>>
       ELSE /\ inserts' = inserts + 1
            /\ LET id == Id(Len(receipt_fraud_checks) + 1)
               IN CASE outcome = "ok" ->
                         /\ receipt_fraud_checks' =
                                Append(receipt_fraud_checks, FraudCheckRow(id))
                         /\ result_id' = id
                    [] outcome = "nodata" ->
                         /\ receipt_fraud_checks' =
                                Append(receipt_fraud_checks, FraudCheckRow(id))
                         /\ result_id' = NoneId
                    [] OTHER ->
                         /\ result_id' = NoneId
                         /\ UNCHANGED receipt_fraud_checks
    /\ pc' = "return"
    /\ UNCHANGED <<globals, apart, fields, expense_category, runs, expense_id, expense_data,
                   futures, merged, category_verification, scores, returned,
                   earlier, writes>>

\* the dict analyze_receipt returns
Verdict ==
    [fraud_check_id |-> result_id,
     overall_risk_score |-> scores.overall_risk_score,
     fraud_probability |-> scores.fraud_probability,
     risk_factors |-> risk_factors,
     verification_results |-> verification_results,
     image_analysis_results |-> image_analysis_results,
     online_verification_results |-> online_verification_results,
     summary |-> scores.summary]

Return ==
    /\ pc = "return"
    /\ returned' = Verdict
    /\ pc' = "returned"
    /\ UNCHANGED <<globals, apart, receipt_fraud_checks, fields, expense_category,
                   runs, expense_id, expense_data, futures, merged, category_verification,
                   scores, result_id, inserts, earlier, writes>>

\* check_receipt_fraud: one analyze_receipt on a new detector
Next ==
    \/ \E id \in (DOMAIN ExpenseRows) \cup {"e_unknown"}, q \in BOOLEAN :
          Begin(id, q, 1)
    \/ \E a \in Analyzers :
          \E o \in Outcomes(a, groq_client, supabase) : Complete(a, o)
    \/ StoreOcrTexts
    \/ \E reply \in ToolReplies : Verify(reply)
    \/ \E a \in Analyzers : Merge(a)
    \/ AddCategory
    \/ Score
    \/ \E o \in StoreOutcomes : _store_fraud_check_results(o)
    \/ Return

Spec == Init /\ [][Next]_vars

\* ----------------------------------------------- repeated use of a detector
ReuseIds == {"e_food", "e_unknown"}

ReuseOutcomes(a, groq, db) ==
    CASE a = "llm" ->
           {Raised,
            _llm_analysis(groq,
               [ok |-> TRUE,
                value |-> Result(ListV(<<"altered total">>),
                                 DictV(Single("food_verification",
                                              [price_discrepancy |-> 60])),
                                 Absent, Absent)])}
      [] a = "image" -> {_image_analysis(FALSE, ImageStages(groq))}
      [] a = "online" -> {_online_verification}
      [] a = "pattern" -> {_pattern_analysis(db, TRUE)}

ReuseReplies == {[ok |-> TRUE, tool_calls |-> <<>>]}

\* analyze_receipt called up to MaxRuns times on one detector
NextReuse ==
    \/ \E id \in ReuseIds : Begin(id, FALSE, MaxRuns)
    \/ \E a \in Analyzers :
          \E o \in ReuseOutcomes(a, groq_client, supabase) : Complete(a, o)
    \/ StoreOcrTexts
    \/ \E reply \in ReuseReplies : Verify(reply)
    \/ \E a \in Analyzers : Merge(a)
    \/ AddCategory
    \/ Score
    \/ _store_fraud_check_results("ok")
    \/ Return

SpecReuse == Init /\ [][NextReuse]_vars

\* ------------------------------------------- replies of any JSON shape
\* replies to the judgment request with each key absent, null, well-formed
\* or of another shape
UntrustedReplies ==
    {[ok |-> FALSE, value |-> EmptyResult], [ok |-> TRUE, value |-> NonDict]}
    \cup {[ok |-> TRUE, value |-> Result(rf, vr, iar, Absent)] :
             rf \in {Absent, BadV, ListV(<<"altered total">>), StrV(<<"n", "o">>),
                     DictV(Single("a", 1))},
             vr \in {Absent, BadV, ListV(<<>>), StrV(<<>>), ListV(<<"n1", "bad">>),
                     ListV(<< <<"k", "v">> >>),
                     DictV([inconsistent_dates |-> [date_mismatch |-> TRUE],
                            amount_verification |-> [amount_match |-> FALSE]]),
                     DictV(Single("inconsistent_dates",
                                  [json_string |-> "dates differ"]))},
             iar \in {Absent, BadV,
                      DictV(Single("format_check", [unusual |-> TRUE]))}}

ReplyOutcomes(a, groq, db) ==
    CASE a = "llm" -> {_llm_analysis(groq, r) : r \in UntrustedReplies}
      [] a = "image" -> {Raised, _image_analysis(FALSE, ImageStages(groq))}
      [] a = "online" -> {_online_verification}
      [] a = "pattern" -> {_pattern_analysis(db, TRUE)}

\* one analyze_receipt whose judgment reply is any of UntrustedReplies
NextReply ==
    \/ \E id \in ReuseIds : Begin(id, FALSE, 1)
    \/ \E a \in Analyzers :
          \E o \in ReplyOutcomes(a, groq_client, supabase) : Complete(a, o)
    \/ StoreOcrTexts
    \/ \E reply \in ReuseReplies : Verify(reply)
    \/ \E a \in Analyzers : Merge(a)
    \/ AddCategory
    \/ Score
    \/ _store_fraud_check_results("ok")
    \/ Return

SpecReply == Init /\ [][NextReply]_vars

\* ------------------------------------------------ analyses that terminate
\* each task raises or returns
FairOutcomes(a, groq, db) ==
    {Raised} \cup
    CASE a = "llm" ->
           {_llm_analysis(groq, [ok |-> TRUE,
                                 value |-> Result(ListV(<<"altered total">>), BadV,
                                                  Absent, Absent)])}
      [] a = "image" -> {_image_analysis(FALSE, ImageStages(groq))}
      [] a = "online" -> {_online_verification}
      [] a = "pattern" -> {_pattern_analysis(db, TRUE)}

FairReplies ==
    {[ok |-> FALSE, tool_calls |-> <<>>],
     [ok |-> TRUE, tool_calls |-> <<ToolCall("check_pricing", FALSE, FALSE)>>]}

NextFair ==
    \/ \E id \in {"e_food", "e_null", "e_unknown"} : Begin(id, FALSE, 1)
    \/ \E a \in Analyzers :
          \E o \in FairOutcomes(a, groq_client, supabase) : Complete(a, o)
    \/ StoreOcrTexts
    \/ \E reply \in FairReplies : Verify(reply)
    \/ \E a \in Analyzers : Merge(a)
    \/ AddCategory
    \/ Score
    \/ \E o \in StoreOutcomes : _store_fraud_check_results(o)
    \/ Return

\* every pool task and the category verifier terminate, and the thread of
\* analyze_receipt keeps running; the scoring step is named by what it does
\* to pc: it is enabled when pc = "score" and is the one step that leaves
\* that position
SpecFair ==
    /\ Init /\ [][NextFair]_vars
    /\ \A a \in Analyzers :
          WF_vars(\E o \in FairOutcomes(a, groq_client, supabase) : Complete(a, o))
    /\ WF_vars(StoreOcrTexts)
    /\ WF_vars(\E reply \in FairReplies : Verify(reply))
    /\ WF_vars(\E a \in Analyzers : Merge(a))
    /\ WF_vars(AddCategory)
    /\ WF_pc(pc = "score" /\ pc' = "store")
    /\ WF_vars(\E o \in StoreOutcomes : _store_fraud_check_results(o))
    /\ WF_vars(Return)

\* ------------------------------------------------------ OCR reconciliation
\* None, a number (an amount in cents, a confidence in units of Scale), and
\* True and False
NoneV == [kind |-> "none", items |-> <<>>, map |-> EmptyDict]
NumV(n) == [kind |-> "num", items |-> <<>>, map |-> EmptyDict, num |-> n]
BoolV(b) == [kind |-> "bool", items |-> <<>>, map |-> EmptyDict, bool |-> b]

\* bool(v): None, 0, False, '', [] and {} are falsy
Truthy(v) ==
    CASE v.kind \in {"none", "absent"} -> FALSE
      [] v.kind = "num" -> v.num # 0
      [] v.kind = "bool" -> v.bool
      [] v.kind \in {"str", "list"} -> v.items # <<>>
      [] v.kind = "dict" -> v.map # EmptyDict
      [] OTHER -> TRUE

\* a == b between values of the structured data: a bool is the number 0 or
\* 1 (1.0 is 100 hundredths) wherever it stands, also inside a mapping or a
\* list (whose members are values of these kinds); values of different
\* types are unequal
RECURSIVE Equal(_, _)
Equal(a, b) ==
    LET Hundredths(v) == IF v.kind = "bool" THEN (IF v.bool THEN 100 ELSE 0) ELSE v.num
    IN  IF a.kind \in {"num", "bool"} /\ b.kind \in {"num", "bool"}
        THEN Hundredths(a) = Hundredths(b)
        ELSE IF a.kind = "dict" /\ b.kind = "dict"
        THEN /\ DOMAIN a.map = DOMAIN b.map
             /\ \A k \in DOMAIN a.map : Equal(a.map[k], b.map[k])
        ELSE IF a.kind = "list" /\ b.kind = "list"
        THEN /\ Len(a.items) = Len(b.items)
             /\ \A i \in 1..Len(a.items) : Equal(a.items[i], b.items[i])
        ELSE a = b

\* the characters of the strings, in the order of their code points
Ascii == "\t\n\f\r !\"#$%&'()*+,-./0123456789:;<=>?@ABCDEFGHIJKLMNOPQRSTUVWXYZ[\\]^_abcdefghijklmnopqrstuvwxyz{|}~"

\* the number a confidence is, in units of 1/Scale: True is 1 and False 0
Num(v) == IF v.kind = "bool" THEN (IF v.bool THEN Scale ELSE 0) ELSE v.num

\* a > b between two confidences: between numbers, between strings and
\* between lists of strings, which compare by their first difference;
\* TypeError (ok = FALSE) between other values
Greater(a, b) ==
    LET
        Ord(c) == CHOOSE i \in 1..Len(Ascii) : SubSeq(Ascii, i, i) = c
        Differing(x, y) == {i \in 1..Len(x) : i <= Len(y) /\ x[i] # y[i]}
        First(x, y) == CHOOSE i \in Differing(x, y) : \A j \in Differing(x, y) : i <= j
        Chars(str) == [i \in 1..Len(str) |-> SubSeq(str, i, i)]
        CharsGreater(x, y) == IF Differing(x, y) = {} THEN Len(x) > Len(y)
                              ELSE Ord(x[First(x, y)]) > Ord(y[First(x, y)])
        ListGreater(x, y) == IF Differing(x, y) = {} THEN Len(x) > Len(y)
                             ELSE CharsGreater(Chars(x[First(x, y)]),
                                               Chars(y[First(x, y)]))
    IN  CASE a.kind \in {"num", "bool"} /\ b.kind \in {"num", "bool"} ->
                [ok |-> TRUE, greater |-> Num(a) > Num(b)]
          [] a.kind = "str" /\ b.kind = "str" ->
                [ok |-> TRUE, greater |-> CharsGreater(a.items, b.items)]
          [] a.kind = "list" /\ b.kind = "list" ->
                [ok |-> TRUE, greater |-> ListGreater(a.items, b.items)]
          [] OTHER -> [ok |-> FALSE, greater |-> FALSE]

Digit == <<"0", "1", "2", "3", "4", "5", "6", "7", "8", "9">>
AllDigits(s) == \A i \in 1..Len(s) : \E d \in 1..10 : Digit[d] = s[i]

\* int() of a run of decimal digits
RECURSIVE Number(_)
Number(ds) ==
    IF ds = <<>> THEN 0
    ELSE 10 * Number(SubSeq(ds, 1, Len(ds) - 1))
         + (CHOOSE v \in 0..9 : Digit[v + 1] = ds[Len(ds)])

\* str(n) of a natural number
RECURSIVE ToDigits(_)
ToDigits(n) == IF n < 10 THEN <<Digit[n + 1]>>
               ELSE ToDigits(n \div 10) \o <<Digit[(n % 10) + 1]>>

\* str.split(sep)
RECURSIVE Split(_, _)
Split(s, sep) ==
    IF \A i \in 1..Len(s) : s[i] # sep THEN <<s>>
    ELSE LET i == CHOOSE k \in 1..Len(s) : s[k] = sep /\ \A j \in 1..(k - 1) : s[j] # sep
         IN  <<SubSeq(s, 1, i - 1)>> \o Split(SubSeq(s, i + 1, Len(s)), sep)

\* the five formats of _normalize_date, in the order they are tried: the
\* separator and the directive of each of the three parts
formats == << [sep |-> "/", parts |-> <<"m", "d", "Y">>],
              [sep |-> "/", parts |-> <<"d", "m", "Y">>],
              [sep |-> "-", parts |-> <<"Y", "m", "d">>],
              [sep |-> "-", parts |-> <<"m", "d", "Y">>],
              [sep |-> "-", parts |-> <<"d", "m", "Y">>] >>

\* datetime(year, month, day) accepts the numbers: a year from 1 on and a
\* day the month has
IsDate(y, m, d) ==
    /\ y >= 1
    /\ d <= (CASE m \in {4, 6, 9, 11} -> 30
               [] m = 2 -> IF (y % 4 = 0 /\ y % 100 # 0) \/ y % 400 = 0
                           THEN 29 ELSE 28
               [] OTHER -> 31)

\* datetime.strptime(date_str, fmt): a date, or ValueError (ok = FALSE) when
\* the string does not match the format or names no day of the calendar; %m
\* is one or two digits in 1..12, %d one or two digits in 1..31 or a space
\* and a digit in 1..9, %Y exactly four digits
strptime(date_str, fmt) ==
    LET parts == Split(date_str, fmt.sep)
        Digits(part) == IF part # <<>> /\ Head(part) = " " THEN Tail(part) ELSE part
        Matches(directive, part) ==
            CASE directive = "m" ->
                    AllDigits(part) /\ Len(part) \in 1..2 /\ Number(part) \in 1..12
              [] directive = "d" ->
                    \/ AllDigits(part) /\ Len(part) \in 1..2 /\ Number(part) \in 1..31
                    \/ /\ Len(part) = 2 /\ Head(part) = " "
                       /\ AllDigits(Tail(part)) /\ Number(Tail(part)) \in 1..9
              [] OTHER -> AllDigits(part) /\ Len(part) = 4
        Read(directive) ==
            Number(Digits(parts[CHOOSE i \in 1..3 : fmt.parts[i] = directive]))
    IN  IF /\ Len(parts) = 3
           /\ \A i \in 1..3 : Matches(fmt.parts[i], parts[i])
           /\ IsDate(Read("Y"), Read("m"), Read("d"))
        THEN [ok |-> TRUE, year |-> Read("Y"), month |-> Read("m"), day |-> Read("d")]
        ELSE [ok |-> FALSE, year |-> 0, month |-> 0, day |-> 0]

\* date_obj.strftime('%Y-%m-%d'): month and day with two digits, the year
\* without padding
strftime(date_obj) ==
    LET Pad2(n) == IF n < 10 THEN <<"0">> \o ToDigits(n) ELSE ToDigits(n)
    IN  ToDigits(date_obj.year) \o <<"-">> \o Pad2(date_obj.month)
            \o <<"-">> \o Pad2(date_obj.day)

\* the loop of _normalize_date over the results of strptime for the five
\* formats: the first that parsed gives the date as YYYY-MM-DD; the string
\* comes back unchanged when none did
FirstParsed(tries, date_str) ==
    LET parsing == {i \in 1..Len(tries) : tries[i].ok}
    IN  IF parsing = {} THEN date_str
        ELSE StrV(strftime(tries[CHOOSE i \in parsing : \A j \in parsing : i <= j]))

\* _normalize_date: the formats are tried in order; a value that is not a
\* string comes back unchanged (strptime raises TypeError)
_normalize_date(date_str) ==
    IF date_str.kind # "str" THEN date_str
    ELSE FirstParsed([i \in 1..Len(formats) |-> strptime(date_str.items, formats[i])],
                     date_str)

\* _normalize_text: lower case, then every character outside a-z and 0-9
\* removed; a value that is not a string comes back unchanged
_normalize_text(text) ==
    LET UpperCase == <<"A", "B", "C", "D", "E", "F", "G", "H", "I", "J", "K", "L", "M",
                       "N", "O", "P", "Q", "R", "S", "T", "U", "V", "W", "X", "Y", "Z">>
        LowerCase == <<"a", "b", "c", "d", "e", "f", "g", "h", "i", "j", "k", "l", "m",
                       "n", "o", "p", "q", "r", "s", "t", "u", "v", "w", "x", "y", "z">>
        LowerChar(c) == IF \E i \in 1..26 : UpperCase[i] = c
                        THEN LowerCase[CHOOSE i \in 1..26 : UpperCase[i] = c]
                        ELSE c
        IsAlnum(c) == AllDigits(<<c>>) \/ \E i \in 1..26 : LowerCase[i] = c
    IN  IF text.kind # "str" THEN text
        ELSE StrV(SelectSeq([i \in 1..Len(text.items) |-> LowerChar(text.items[i])],
                            IsAlnum))

\* the natural number a run of decimal digits writes
RECURSIVE BigNumber(_)
BigNumber(ds) ==
    IF Len(ds) <= 4 THEN Big(Number(ds))
    ELSE MulC(BigNumber(SubSeq(ds, 1, Len(ds) - 4)), 10000,
              Number(SubSeq(ds, Len(ds) - 3, Len(ds))))

\* float(v): of a number (in hundredths) the double nearest to it, of True
\* 1.0 and of False 0.0; of a string the double nearest to the numeral it
\* holds: white space around it is dropped, an underscore may stand between
\* two digits, then come a sign, and inf, infinity or nan in any case, or
\* digits with a point and an exponent; ValueError for any other string,
\* TypeError for None, a list or a dict (ok = FALSE)
float(v) ==
    LET Space == {" ", "\t", "\n", "\r", "\f"}
        NoUnderscore(c) == c # "_"
        LowerChar(c) == CASE c = "I" -> "i" [] c = "N" -> "n" [] c = "F" -> "f"
                          [] c = "T" -> "t" [] c = "Y" -> "y" [] c = "A" -> "a"
                          [] c = "E" -> "e" [] OTHER -> c
        Raises == [ok |-> FALSE, d |-> NaN]
        \* digits, a point and digits, times ten to the exponent
        Digits(neg, whole, frac, eneg, significant) ==
            [ok |-> TRUE,
             d |-> DFromDecimal(neg, BigNumber(whole \o frac),
                                (IF eneg THEN -1 ELSE 1)
                                * (IF Len(significant) > 6 THEN 999999
                                   ELSE Number(significant))
                                - Len(frac))]
        \* the exponent without its leading zeros
        Exponent(neg, whole, frac, eneg, edigits) ==
            IF edigits = <<>> \/ ~AllDigits(edigits) THEN Raises
            ELSE Digits(neg, whole, frac, eneg,
                        SubSeq(edigits,
                               1 + Cardinality({i \in 1..Len(edigits) :
                                                   \A j \in 1..i : edigits[j] = "0"}),
                               Len(edigits)))
        Mantissa(neg, whole, frac, exponent) ==
            IF ~AllDigits(whole) \/ ~AllDigits(frac) \/ Len(whole) + Len(frac) = 0
            THEN Raises
            ELSE Exponent(neg, whole, frac, exponent # <<>> /\ Head(exponent) = "-",
                          IF exponent # <<>> /\ Head(exponent) \in {"+", "-"}
                          THEN Tail(exponent) ELSE exponent)
        Parts(neg, mantissa, exponent) ==
            IF Len(mantissa) \notin 1..2 THEN Raises
            ELSE Mantissa(neg, mantissa[1],
                          IF Len(mantissa) = 2 THEN mantissa[2] ELSE <<>>, exponent)
        Numeral(neg, parts) ==
            IF Len(parts) \notin 1..2 THEN Raises
            ELSE Parts(neg, Split(parts[1], "."),
                       IF Len(parts) = 2 THEN parts[2] ELSE <<"0">>)
        Unsigned(neg, body) ==
            IF body \in {<<"i", "n", "f">>, <<"i", "n", "f", "i", "n", "i", "t", "y">>}
            THEN [ok |-> TRUE, d |-> Inf(neg)]
            ELSE IF body = <<"n", "a", "n">> THEN [ok |-> TRUE, d |-> NaN]
            ELSE Numeral(neg, Split(body, "e"))
        Lowered(chars) == [i \in 1..Len(chars) |-> LowerChar(chars[i])]
        Signed(plain) ==
            Unsigned(plain # <<>> /\ Head(plain) = "-",
                     Lowered(IF plain # <<>> /\ Head(plain) \in {"+", "-"}
                             THEN Tail(plain) ELSE plain))
        Grouped(stripped) ==
            IF \A i \in 1..Len(stripped) :
                  stripped[i] = "_" =>
                      /\ 1 < i /\ i < Len(stripped)
                      /\ AllDigits(<<stripped[i - 1], stripped[i + 1]>>)
            THEN Signed(SelectSeq(stripped, NoUnderscore))
            ELSE Raises
        Stripped(chars, inner) ==
            Grouped(IF inner = {} THEN <<>>
                    ELSE SubSeq(chars, CHOOSE i \in inner : \A j \in inner : i <= j,
                                CHOOSE i \in inner : \A j \in inner : j <= i))
    IN  CASE v.kind = "num" ->
                [ok |-> TRUE,
                 d |-> DFromDecimal(v.num < 0, Big(IF v.num < 0 THEN 0 - v.num ELSE v.num),
                                    -2)]
          [] v.kind = "bool" ->
                [ok |-> TRUE, d |-> IF v.bool THEN DFromInt(1) ELSE Zero(FALSE)]
          [] v.kind = "str" ->
                Stripped(v.items, {i \in 1..Len(v.items) : v.items[i] \notin Space})
          [] OTHER -> Raises

\* abs(float(t) - float(l)) against 0.01, given what float() made of the
\* two values: "raise" when either raised, "same" when the difference is
\* below 0.01, "differ" when it is 0.01 or more, "unordered" when it is a
\* NaN, which is neither; 10.01 - 10.0 is 0.009999999999999787 and 0.81 -
\* 0.8 is 0.010000000000000009
CompareAmounts(a, b) ==
    LET Within(difference) ==
            IF difference.kind = "nan" THEN "unordered"
            ELSE IF DLess(difference, Decimal(1, 2)) THEN "same"
            ELSE "differ"
    IN  IF ~a.ok \/ ~b.ok THEN "raise"
        ELSE Within(DAbs(DAdd(a.d, DNeg(b.d))))

\* the four fields the two paths are compared on, in the order of the code
CompareOrder_date_twice ==
    <<"date", "date", "vendor_name", "tax_amount">>

CompareOrder ==
    <<"date", "total_amount", "vendor_name", "tax_amount">>

\* one comparison of _find_discrepancies and _validate_ocr_results: "raise"
\* when .get is called on a value that is no dict, "skip" when the classical
\* value is missing or falsy, and then when the model's value is, "raise"
\* when float() does, else "same", "differ" or "unordered"
Compare(field, tesseract_data, llm_data) ==
    LET DataGet(d) == IF field \in DOMAIN d.map THEN d.map[field] ELSE NoneV
        tesseract_value == DataGet(tesseract_data)
        llm_value == DataGet(llm_data)
    IN  IF tesseract_data.kind # "dict" THEN "raise"
        ELSE IF ~Truthy(tesseract_value) THEN "skip"
        ELSE IF llm_data.kind # "dict" THEN "raise"
        ELSE IF ~Truthy(llm_value) THEN "skip"
        ELSE CASE field = "date" ->
                    IF Equal(_normalize_date(tesseract_value), _normalize_date(llm_value))
                    THEN "same" ELSE "differ"
               [] field = "vendor_name" ->
                    IF Equal(_normalize_text(tesseract_value), _normalize_text(llm_value))
                    THEN "same" ELSE "differ"
               [] OTHER ->
                    CompareAmounts(float(tesseract_value), float(llm_value))

\* the comparisons made before an exception ends them
UntilRaise(checks) ==
    LET raising == {i \in 1..Len(checks) : checks[i] = "raise"}
    IN  IF raising = {} THEN checks
        ELSE SubSeq(checks, 1, (CHOOSE i \in raising : \A j \in raising : i <= j) - 1)

\* the comparisons that _find_discrepancies and _validate_ocr_results get
\* through, field after field
Checks(tesseract_data, llm_data) ==
    UntilRaise([i \in 1..4 |-> Compare(CompareOrder[i], tesseract_data, llm_data)])

\* the list _find_discrepancies builds: an entry for each field compared
\* and found to differ
Discrepancies(checks, tesseract_data, llm_data) ==
    LET Differs(field) ==
            checks[CHOOSE i \in 1..Len(checks) : CompareOrder[i] = field] = "differ"
        differing == SelectSeq(SubSeq(CompareOrder, 1, Len(checks)), Differs)
    IN  [i \in 1..Len(differing) |->
            [field |-> differing[i],
             tesseract_value |-> tesseract_data.map[differing[i]],
             llm_value |-> llm_data.map[differing[i]]]]

\* _find_discrepancies: a discrepancy appended for each field that differs,
\* field after field; an exception ends the comparisons and the list built
\* so far is returned
_find_discrepancies(tesseract_data, llm_data) ==
    Discrepancies(Checks(tesseract_data, llm_data), tesseract_data, llm_data)

\* the dict _validate_ocr_results builds: a match flag for each field
\* compared and found the same, and the fraction of the five entries that
\* are true, left at 0.0 when an exception ended the comparisons
Validation(checks) ==
    LET flag(i) == i <= Len(checks) /\ checks[i] = "same"
    IN  [date_match |-> flag(1), amount_match |-> flag(2),
         vendor_match |-> flag(3), tax_match |-> flag(4),
         overall_match_score |->
             IF Len(checks) = 4
             THEN Cardinality({i \in 1..4 : flag(i)}) * (Scale \div 5) ELSE 0]

\* _validate_ocr_results: the flags are set field after field; an exception
\* leaves the flags set so far
_validate_ocr_results(tesseract_data, llm_data) ==
    Validation(Checks(tesseract_data, llm_data))

\* _combine_ocr_results: text, data and confidence of the model-based path
\* when its confidence is greater than the classical one, else of the
\* classical path; with a discrepancy the confidence is multiplied by 1 -
\* 0.1 for each discrepancy, without one it stays the value it was (True
\* stays True); the dict the function starts from when the comparison of
\* the confidences raises, and the dict with the confidence as selected when
\* the product raises (a string or a list times a float)
_combine_ocr_results(tesseract_results, llm_results) ==
    LET combined == [extracted_text |-> StrV(<<>>),
                     structured_data |-> DictV(EmptyDict),
                     confidence_score |-> NumV(0), validation_results |-> EmptyDict,
                     discrepancies |-> <<>>]
        best == IF "best_result" \in DOMAIN tesseract_results
                THEN tesseract_results.best_result ELSE EmptyDict
        tesseract_text == IF "text" \in DOMAIN best THEN best.text ELSE StrV(<<>>)
        llm_text == IF "extracted_text" \in DOMAIN llm_results
                    THEN llm_results.extracted_text ELSE StrV(<<>>)
        tesseract_data == IF "structured_data" \in DOMAIN tesseract_results
                          THEN tesseract_results.structured_data ELSE DictV(EmptyDict)
        llm_data == IF "structured_data" \in DOMAIN llm_results
                    THEN llm_results.structured_data ELSE DictV(EmptyDict)
        tesseract_confidence == IF "confidence" \in DOMAIN best
                                THEN best.confidence ELSE NumV(0)
        llm_confidence == IF "confidence_score" \in DOMAIN llm_results
                          THEN llm_results.confidence_score ELSE NumV(0)
        \* combined['confidence_score'] *= (1 - len(discrepancies) * 0.1)
        Discounted(selected) ==
            IF \/ selected.discrepancies = <<>>
               \/ selected.confidence_score.kind \notin {"num", "bool"}
            THEN selected
            ELSE [selected EXCEPT !.confidence_score =
                      NumV((Num(@) * (10 - Len(selected.discrepancies))) \div 10)]
        Selected(llm_wins) ==
            IF ~llm_wins.ok THEN combined
            ELSE Discounted(
                    [extracted_text |-> IF llm_wins.greater THEN llm_text
                                        ELSE tesseract_text,
                     structured_data |-> IF llm_wins.greater THEN llm_data
                                         ELSE tesseract_data,
                     confidence_score |-> IF llm_wins.greater THEN llm_confidence
                                          ELSE tesseract_confidence,
                     validation_results |->
                         _validate_ocr_results(tesseract_data, llm_data),
                     discrepancies |-> _find_discrepancies(tesseract_data, llm_data)])
    IN  Selected(Greater(llm_confidence, tesseract_confidence))

\* _assess_image_quality: the first rule that matches decides; blur,
\* brightness, contrast and noise in whole units, compression in units of
\* 1/Scale
_assess_image_quality_brightness_first(blur, brightness, contrast, noise, compression) ==
    IF brightness < 50 \/ brightness > 200 THEN "Poor quality - Incorrect brightness"
    ELSE IF blur < 100 THEN "Poor quality - Image is too blurry"
    ELSE IF contrast < 30 THEN "Poor quality - Low contrast"
    ELSE IF noise > 20 THEN "Poor quality - High noise level"
    ELSE IF compression > 5 * Tenth THEN "Poor quality - Heavy compression artifacts"
    ELSE "Good quality"

_assess_image_quality(blur, brightness, contrast, noise, compression) ==
    IF blur < 100 THEN "Poor quality - Image is too blurry"
    ELSE IF brightness < 50 \/ brightness > 200 THEN "Poor quality - Incorrect brightness"
    ELSE IF contrast < 30 THEN "Poor quality - Low contrast"
    ELSE IF noise > 20 THEN "Poor quality - High noise level"
    ELSE IF compression > 5 * Tenth THEN "Poor quality - Heavy compression artifacts"
    ELSE "Good quality"

\* _analyze_image_quality: {} from its handler, else the five metrics and
\* the assessment; _estimate_noise and _detect_compression_artifacts give
\* 0.0 from their own handlers
_analyze_image_quality(q) ==
    LET noise == IF q.noise_raises THEN 0 ELSE q.noise
        compression_score == IF q.compression_raises THEN 0 ELSE q.compression
    IN  IF q.raises THEN EmptyDict
        ELSE [blur_score |-> q.blur, brightness |-> q.brightness,
              contrast |-> q.contrast, noise_level |-> noise,
              compression_artifacts |-> compression_score,
              quality_assessment |->
                  _assess_image_quality(q.blur, q.brightness, q.contrast, noise,
                                        compression_score)]

\* _enhanced_ocr_analysis: {} from its handler, else the results of both
\* paths and their combination
_enhanced_ocr_analysis(o) ==
    IF o.raises THEN EmptyDict
    ELSE [tesseract_analysis |-> o.tesseract_results,
          llm_analysis |-> o.llm_results,
          combined_analysis |-> _combine_ocr_results(o.tesseract_results,
                                                     o.llm_results)]

\* _check_metadata: the anomalies found in image.info (no metadata; a
\* Software entry naming an editor; a Comment entry holding 'saved'), and
\* one entry of its own from the handler
_check_metadata(info) ==
    IF info = "raises" THEN <<"Error checking metadata">>
    ELSE (IF info = "empty" THEN <<"No metadata found">> ELSE <<>>)
         \o (IF info \in {"photoshop", "photoshop saved"}
             THEN <<"Suspicious editing software detected: photoshop">> ELSE <<>>)
         \o (IF info \in {"saved", "photoshop saved"}
             THEN <<"Image appears to have been saved multiple times">> ELSE <<>>)

\* _check_image_manipulation: [] when the conversion to an array raises,
\* else one indicator per detector that returns True (each detector
\* returns False from its own handler) followed by the metadata anomalies
_check_image_manipulation(m) ==
    LET Indicator(outcome, message) ==
            IF outcome = "found" THEN <<message>> ELSE <<>>
    IN  IF m.raises THEN <<>>
        ELSE Indicator(m.copy_move, "Possible copy-move forgery detected")
             \o Indicator(m.jpeg, "Inconsistent JPEG compression detected")
             \o Indicator(m.noise, "Inconsistent noise patterns detected")
             \o Indicator(m.edge, "Inconsistent edge patterns detected")
             \o _check_metadata(m.metadata)

\* _analyze_text_patterns: the results of the OCR stage hold no key
\* extracted_text (their keys are tesseract_analysis, llm_analysis and
\* combined_analysis), so the text is '' and the starting dict is returned
_analyze_text_patterns(ocr_results) ==
    [suspicious_patterns |-> <<>>, text_consistency |-> EmptyDict,
     format_analysis |-> EmptyDict]

\* the dict _image_analysis fills stage after stage (lines 214-223)
ImageResults(image) ==
    LET Stages(ocr_analysis) ==
            [image_quality |-> _analyze_image_quality(image.quality),
             ocr_analysis |-> ocr_analysis,
             manipulation_indicators |-> _check_image_manipulation(image.manipulation),
             text_pattern_analysis |-> _analyze_text_patterns(ocr_analysis)]
    IN  Stages(_enhanced_ocr_analysis(image.ocr))

\* ----------------------------------------------------------- expense parser
\* (src/ai/ocr_expense_parser.py)  an amount is held in units of
\* 10^-(MaxChars - 1), which every numeral of MaxChars characters is a
\* multiple of
Unit == 10 ^ (MaxChars - 1)

\* clean_numeric_value: None for None, float(value) for a number (a bool is
\* an int), for a string float() of what re.sub(r'[^\d.-]', '', value)
\* leaves, None when float() raises ValueError, None for anything else
clean_numeric_value_unconverted(value) ==
    IF value.kind = "num" THEN value
    ELSE IF value.kind = "bool" THEN NumV(IF value.bool THEN Unit ELSE 0)
    ELSE IF value.kind = "str" THEN value
    ELSE NoneV

clean_numeric_value(value) ==
    LET Kept(c) == c = "." \/ c = "-" \/ AllDigits(<<c>>)
        cleaned == SelectSeq(value.items, Kept)
        negative == cleaned # <<>> /\ Head(cleaned) = "-"
        parts == Split(IF negative THEN Tail(cleaned) ELSE cleaned, ".")
        whole == parts[1]
        frac == IF Len(parts) = 2 THEN parts[2] ELSE <<>>
        magnitude == Number(whole) * Unit
                     + Number(frac) * 10 ^ (MaxChars - 1 - Len(frac))
    IN  IF value.kind = "none" THEN NoneV
        ELSE IF value.kind = "num" THEN value
        ELSE IF value.kind = "bool" THEN NumV(IF value.bool THEN Unit ELSE 0)
        ELSE IF value.kind = "str"
        THEN IF /\ Len(parts) <= 2
                /\ AllDigits(whole) /\ AllDigits(frac)
                /\ Len(whole) + Len(frac) > 0
             THEN NumV(IF negative THEN 0 - magnitude ELSE magnitude)
             ELSE NoneV
        ELSE NoneV

\* store_expense_data: None without a database client; else the record it
\* passes to insert, with the cleaned amounts and the currency cut to what
\* stands between parentheses and to 10 characters, a falsy currency (None,
\* 0, False, '', [], {}) as it is, a list cut to 10 elements; None from the
\* handler when a step raises (extracted_data no dict; a truthy currency
\* that is a number or a dict, or a list that holds '(' and ')' and has no
\* find; the insert).  passed: the records handed to insert; ret: the value
\* returned
store_expense_data(db, parsed_data, insert) ==
    LET extracted_data == IF "extracted_data" \in DOMAIN parsed_data
                          THEN parsed_data.extracted_data ELSE DictV(EmptyDict)
        get(key) == IF key \in DOMAIN extracted_data.map
                    THEN extracted_data.map[key] ELSE NoneV
        given == IF "Currency" \in DOMAIN extracted_data.map
                 THEN extracted_data.map["Currency"] ELSE StrV(<<>>)
        text == given.items
        find(c) == CHOOSE i \in 1..Len(text) :
                      text[i] = c /\ \A j \in 1..(i - 1) : text[j] # c
        has(c) == \E i \in 1..Len(text) : text[i] = c
        Space == {" ", "\t", "\n", "\r", "\f"}
        RECURSIVE strip(_)
        strip(t) == IF t # <<>> /\ Head(t) \in Space THEN strip(Tail(t))
                    ELSE IF t # <<>> /\ t[Len(t)] \in Space
                         THEN strip(SubSeq(t, 1, Len(t) - 1))
                         ELSE t
        inner == IF has("(") /\ has(")")
                 THEN strip(SubSeq(text, find("(") + 1, find(")") - 1))
                 ELSE text
        raises == /\ Truthy(given)
                  /\ \/ given.kind \notin {"str", "list"}
                     \/ given.kind = "list" /\ has("(") /\ has(")")
        currency == IF ~Truthy(given) THEN given
                    ELSE IF given.kind = "list" THEN ListV(Take(text, 10))
                    ELSE StrV(Take(inner, 10))
        record == [amount |-> clean_numeric_value(get("Amount")),
                   currency |-> currency,
                   tax_amount |-> clean_numeric_value(get("Tax Amount")),
                   extracted_data |-> extracted_data]
        none == [passed |-> <<>>, ret |-> NoneV]
    IN  IF ~db THEN none
        ELSE IF extracted_data.kind # "dict" THEN none
        ELSE IF raises THEN none
        ELSE [passed |-> <<record>>,
              ret |-> IF insert = "row" THEN StrV(<<"e", "1">>) ELSE NoneV]

\* ------------------------------------------------ functions on their own
\* the detector state is left alone by a call of a function on its own
detector == <<globals, receipt_fraud_checks, fields, expense_category, pc,
              runs, expense_id, expense_data, futures, merged,
              category_verification, scores, result_id, inserts, returned,
              earlier, writes>>

\* a list of n strings
ListOf(n) == SubSeq(<<"n1", "n2", "n3", "n4", "n5", "n6">>, 1, n)

\* scores handed to _generate_summary: the twentieths of [0,1], the values
\* a hundredth below the two thresholds, the double next below 0.8
\* (0.7999999999999999, which times 100 is 80.0) and the scores that
\* category averages of 0.65 and 1.0 lead to
SummaryScores ==
    {Decimal(5 * k, 2) : k \in 0..20}
    \cup {Decimal(49, 2), Decimal(79, 2),
          DFromDecimal(FALSE, BigNumber(<<"7", "9", "9", "9", "9", "9", "9", "9", "9",
                                          "9", "9", "9", "9", "9", "9", "9">>), -16),
          DMul(Decimal(65, 2), Decimal(2, 1)),
          Blend(DMul(Decimal(10, 1), Decimal(2, 1)), Zero(FALSE))}

\* self.verification_results when the summary is written
SummaryVerification ==
    {EmptyDict,
     [inconsistent_dates |-> [date_mismatch |-> TRUE],
      amount_verification |-> [amount_match |-> FALSE]],
     [inconsistent_dates |-> [date_mismatch |-> FALSE],
      amount_verification |-> [amount_match |-> TRUE]],
     Single("inconsistent_dates", JsonStr("dates differ")),
     Single("amount_verification", JsonStr("amounts differ"))}

\* self.image_analysis_results when the summary is written
SummaryImage ==
    {EmptyDict}
    \cup {Single("manipulation_indicators", ListOf(n)) : n \in 0..MaxIndicators}

\* a call of _generate_summary on a detector with the given fields
GenerateSummary(risk, prob, rf, vr, iar) ==
    /\ call = NoCall
    /\ call' = [fn |-> "_generate_summary",
                args |-> [overall_risk_score |-> risk, fraud_probability |-> prob,
                          risk_factors |-> rf, verification_results |-> vr,
                          image_analysis_results |-> iar],
                out |-> _generate_summary(risk, prob, Acc(rf, vr, iar, EmptyDict))]
    /\ UNCHANGED <<detector, verifier, server>>

\* the verification_results handed to _calculate_verification_confidence
\* (line 1390, its one call site): each tool leaves nothing under its key
\* when it was not called, else the result of its call (line 1386)
ConfidenceInputs ==
    LET ToolOutcomes(name) ==
            {EmptyDict}
            \cup {Single(ToolKey(name), RunTool(tc)) :
                    tc \in {c \in ToolCalls : c.name = name}}
    IN  {Update(Update(v, p), Update(l, h)) :
            v \in ToolOutcomes("search_vendor_info"), p \in ToolOutcomes("check_pricing"),
            l \in ToolOutcomes("verify_location"),
            h \in ToolOutcomes("check_operating_hours")}

\* a call of _calculate_verification_confidence
CalculateConfidence(vr) ==
    /\ call = NoCall
    /\ call' = [fn |-> "_calculate_verification_confidence",
                args |-> [verification_results |-> vr],
                out |-> [value |-> _calculate_verification_confidence(vr)]]
    /\ UNCHANGED <<detector, verifier, server>>

\* the result of _tesseract_ocr_analysis: {} after an exception, else the
\* best transcript with its confidence (a multiple of 1/4) and the fields
\* _extract_structured_data finds in it: the date as written, the amounts as
\* floats, the first line as vendor; None where the text has no match, ''
\* for a blank first line
TesseractResults ==
    LET text == StrV(<<"A", "b", " ", "C", "o", "\n", "T", "O", "T", "A", "L">>)
        date == StrV(<<"0", "1", "/", "0", "2", "/", "2", "0", "2", "4">>)
        vendor == StrV(<<"A", "b", " ", "C", "o">>)
    IN  {EmptyDict}
        \cup {[best_result |-> [text |-> StrV(<<>>), confidence |-> NumV(0)],
               structured_data |-> DictV([date |-> NoneV, total_amount |-> NoneV,
                                          tax_amount |-> NoneV,
                                          vendor_name |-> StrV(<<>>),
                                          items |-> ListV(<<>>)])]}
        \cup {[best_result |-> [text |-> text, confidence |-> NumV(c)],
               structured_data |-> DictV([date |-> d, total_amount |-> t,
                                          tax_amount |-> x, vendor_name |-> v,
                                          items |-> ListV(<<>>)])] :
                c \in {2 * (Scale \div 4), 3 * (Scale \div 4)},
                d \in {NoneV, date}, t \in {NoneV, NumV(1000)},
                x \in {NoneV, NumV(80)}, v \in {StrV(<<>>), vendor}}

\* structured_data of the model's reply: a value that is no dict, or a dict
\* with any of the four fields, each the classical value written another
\* way, a value within a cent of it, another value, an amount with its
\* currency sign, a numeral with an exponent, nan, true, or an empty list
LlmData ==
    LET Field(key, values) == {EmptyDict} \cup {Single(key, v) : v \in values}
    IN  {BadV}
        \cup {DictV(Update(Update(d, t), Update(v, x))) :
                d \in Field("date",
                        {StrV(<<"2", "0", "2", "4", "-", "0", "1", "-", "0", "2">>),
                         StrV(<<"0", "2", "/", "0", "1", "/", "2", "0", "2", "4">>)}),
                t \in Field("total_amount",
                        {NumV(1000), NumV(1001), NumV(1250),
                         StrV(<<"$", "1", "0", ".", "0", "0">>),
                         StrV(<<" ", "1", "e", "1">>), StrV(<<"n", "a", "n">>),
                         BoolV(TRUE), ListV(<<>>)}),
                v \in Field("vendor_name",
                        {StrV(<<"A", "B", "-", "C", "O">>), StrV(<<"X", "y">>)}),
                x \in Field("tax_amount", {NumV(80), NumV(81)})}

\* the result of _llm_ocr_analysis: {} without a client or after an
\* exception, else the parsed reply, whose confidence_score may be missing,
\* a string or true
LlmResults ==
    LET text == StrV(<<"A", "B", "-", "C", "O", " ", "t", "o", "t", "a", "l">>)
    IN  {EmptyDict}
        \cup {[extracted_text |-> text, structured_data |-> d] : d \in LlmData}
        \cup {[extracted_text |-> text, structured_data |-> d, confidence_score |-> c] :
                d \in LlmData,
                c \in {NumV(5 * Tenth), NumV(9 * Tenth), StrV(<<"0", ".", "9">>),
                       BoolV(TRUE)}}

\* a call of _combine_ocr_results
CombineOcrResults(tesseract_results, llm_results) ==
    /\ call = NoCall
    /\ call' = [fn |-> "_combine_ocr_results",
                args |-> [tesseract_results |-> tesseract_results,
                          llm_results |-> llm_results],
                out |-> _combine_ocr_results(tesseract_results, llm_results)]
    /\ UNCHANGED <<detector, verifier, server>>

\* a call of _normalize_date
NormalizeDate(date_str) ==
    /\ call = NoCall
    /\ call' = [fn |-> "_normalize_date", args |-> [date_str |-> date_str],
                out |-> _normalize_date(date_str)]
    /\ UNCHANGED <<detector, verifier, server>>

\* a call of _assess_image_quality on metrics at and next to each threshold
AssessImageQuality(blur, brightness, contrast, noise, compression) ==
    /\ call = NoCall
    /\ call' = [fn |-> "_assess_image_quality",
                args |-> [blur |-> blur, brightness |-> brightness,
                          contrast |-> contrast, noise |-> noise,
                          compression |-> compression],
                out |-> _assess_image_quality(blur, brightness, contrast, noise,
                                              compression)]
    /\ UNCHANGED <<detector, verifier, server>>

\* what _image_analysis meets.  The quality stage: a sharp or a blurred
\* image, an estimate that raises, a conversion that raises.  The OCR stage:
\* both paths answer, both give {}, the copy of the image raises.  The
\* manipulation stage: each detector finds something, finds nothing or
\* raises; image.info is empty, clean, tagged by an editor, or holds a value
\* that makes the check raise
Images ==
    LET QualityCases ==
            {[raises |-> r, blur |-> b, brightness |-> 128, contrast |-> 40,
              noise |-> 25, noise_raises |-> n, compression |-> 0,
              compression_raises |-> FALSE] :
                r \in BOOLEAN, b \in {50, 150}, n \in BOOLEAN}
        read == [best_result |-> [text |-> StrV(<<"A", "b">>),
                                  confidence |-> NumV(3 * (Scale \div 4))],
                 structured_data |->
                     DictV([date |-> NoneV, total_amount |-> NumV(1000),
                            tax_amount |-> NoneV, vendor_name |-> StrV(<<"A", "b">>),
                            items |-> ListV(<<>>)])]
        reply == [extracted_text |-> StrV(<<"A", "B">>),
                  structured_data |-> DictV(Single("total_amount", NumV(1250))),
                  confidence_score |-> NumV(5 * Tenth)]
        OcrCases ==
            {[raises |-> TRUE, tesseract_results |-> read, llm_results |-> reply],
             [raises |-> FALSE, tesseract_results |-> read, llm_results |-> reply],
             [raises |-> FALSE, tesseract_results |-> EmptyDict,
              llm_results |-> EmptyDict]}
        outcomes == {"found", "none", "raises"}
        ManipulationCases ==
            {[raises |-> r, copy_move |-> c, jpeg |-> j, noise |-> n, edge |-> e,
              metadata |-> i] :
                r \in BOOLEAN, c \in outcomes, j \in outcomes, n \in outcomes,
                e \in outcomes,
                i \in {"empty", "clean", "photoshop", "saved", "photoshop saved",
                       "raises"}}
    IN  {[quality |-> q, ocr |-> o, manipulation |-> m] :
            q \in QualityCases, o \in OcrCases, m \in ManipulationCases}

\* a call of _image_analysis on an image whose download may fail; when the
\* OCR stage gets through, the calling thread stores the four OCR texts
ImageAnalysis(fails, image) ==
    /\ call = NoCall
    /\ call' = [fn |-> "_image_analysis",
                args |-> [fails |-> fails, image |-> image],
                out |-> _image_analysis(fails, ImageResults(image))]
    /\ writes' = IF fails \/ image.ocr.raises THEN writes
                 ELSE writes \cup OcrTexts(MainThread)
    /\ UNCHANGED <<globals, receipt_fraud_checks, fields, expense_category, pc,
                   runs, expense_id, expense_data, futures, merged,
                   category_verification, scores, result_id, inserts, returned,
                   earlier, verifier, server>>

RECURSIVE Strings(_, _)
Strings(alphabet, n) ==
    IF n = 0 THEN {<<>>}
    ELSE LET shorter == Strings(alphabet, n - 1)
         IN  shorter \cup {Append(t, c) : t \in shorter, c \in alphabet}

\* what the parser's reply gives store_expense_data: under 'Amount' every
\* string of MaxChars characters at most made of a currency sign, two
\* digits, the point and the minus sign, or a
\* number, a bool, null, a list, or nothing; under 'Tax Amount' and
\* 'Currency' a few values of each kind; and an extracted_data that is null
ParsedData ==
    LET Field(key, values) == {EmptyDict} \cup {Single(key, v) : v \in values}
        amounts == {StrV(t) : t \in Strings({"$", "1", "5", ".", "-"}, MaxChars)}
                   \cup {NumV(0), NumV(15 * (Unit \div 10)), NumV(0 - 2 * Unit),
                          BoolV(TRUE), NoneV, ListV(<<>>)}
        taxes == {StrV(<<"$", "1", ".", "5">>), StrV(<<"1", ".", "5", ".">>),
                  StrV(<<"n", "/", "a">>), NumV(Unit), NoneV}
        currencies == {StrV(<<>>), StrV(<<"U", "S", "D">>), NoneV, NumV(1),
                       BoolV(FALSE), BoolV(TRUE), ListV(<<>>), DictV(EmptyDict),
                       ListV(<<"USD">>), ListV(<<"(", "USD", ")">>),
                       DictV(Single("code", StrV(<<"U", "S", "D">>))),
                       StrV(<<"U", "S", " ", "D", "o", "l", "l", "a", "r", " ",
                              "(", " ", "$", ")">>),
                       StrV(<<"U", "S", " ", "D", "o", "l", "l", "a", "r", "s">>
                            \o <<" ", "o", "n", "l", "y">>)}
    IN  {EmptyDict, [extracted_data |-> NoneV]}
        \cup {[extracted_data |-> DictV(Update(a, t))] :
                a \in Field("Amount", amounts), t \in Field("Tax Amount", taxes)}
        \cup {[extracted_data |-> DictV(Update(Update(a, t), c))] :
                a \in Field("Amount", {NumV(Unit)}),
                t \in Field("Tax Amount", {NoneV}),
                c \in Field("Currency", currencies)}

\* a call of store_expense_data
StoreExpenseData(db, parsed_data, insert) ==
    /\ call = NoCall
    /\ call' = [fn |-> "store_expense_data",
                args |-> [supabase |-> db, parsed_data |-> parsed_data,
                          insert |-> insert],
                out |-> store_expense_data(db, parsed_data, insert)]
    /\ UNCHANGED <<detector, verifier, server>>

\* each call starts from a detector on which no call was made
NextUnits ==
    \/ /\ call = NoCall
       /\ \E vr \in ConfidenceInputs : CalculateConfidence(vr)
    \/ /\ call = NoCall
       /\ \E blur \in {0, 50, 99, 100, 150}, brightness \in {49, 50, 128, 200, 201},
             contrast \in {29, 30}, noise \in {20, 21},
             compression \in {0, 5 * Tenth, 5 * Tenth + 1} :
                AssessImageQuality(blur, brightness, contrast, noise, compression)
    \/ /\ call = NoCall
       /\ \E db \in BOOLEAN, parsed_data \in ParsedData,
             insert \in {"row", "no row", "raises"} :
                (db \/ insert = "row") /\ StoreExpenseData(db, parsed_data, insert)
    \/ /\ call = NoCall
       /\ \E risk \in {Zero(FALSE), Decimal(2, 1), DFromInt(1)}, prob \in SummaryScores,
             n \in 0..MaxFactors, vr \in SummaryVerification, iar \in SummaryImage :
                GenerateSummary(risk, prob, ListOf(n), vr, iar)
    \/ /\ call = NoCall
       /\ \E tesseract_results \in TesseractResults, llm_results \in LlmResults :
             CombineOcrResults(tesseract_results, llm_results)
    \/ /\ call = NoCall
       \* the date strings handed to _normalize_date: three parts of one,
       \* two or four digits around a separator, and a string that is no date
       /\ LET part == {<<"1">>, <<"0", "1">>, <<"0", "2">>, <<"1", "2">>,
                       <<"1", "3">>, <<"3", "1">>, <<"2", "4">>, <<" ", "5">>,
                       <<"2", "0", "2", "4">>, <<"0", "9", "9", "9">>}
              DateStrings ==
                  {StrV(<<"n", "/", "a">>)}
                  \cup {StrV(a \o <<sep>> \o b \o <<sep>> \o c) :
                          a \in part, b \in part, c \in part, sep \in {"/", "-"}}
          IN \E date_str \in DateStrings : NormalizeDate(date_str)
    \/ /\ call = NoCall
       /\ \E fails \in BOOLEAN, image \in Images : ImageAnalysis(fails, image)

InitUnits == Init /\ groq_client /\ supabase

SpecUnits == InitUnits /\ [][NextUnits]_vars

\* --------------------------------------- the category verifier step by step
VerifierReplies ==
    {[ok |-> FALSE, tool_calls |-> <<>>]}
    \cup {[ok |-> TRUE, tool_calls |-> q] : q \in SeqsUpTo(ToolCalls, MaxRoundCalls)}

\* `return {}` of the verifier
VerifierReturns(v, state) ==
    [v EXCEPT !.pc = "Returned", !.path = Append(@, state), !.ret = EmptyResult]

\* lines 283-289: the client and the category
VerifierStart(category) ==
    /\ verifier.pc = "idle"
    /\ LET v == [verifier EXCEPT !.category = category]
       IN verifier' = IF ~groq_client THEN VerifierReturns(v, "NoClient")
                      ELSE IF Falsy(category) THEN VerifierReturns(v, "NoCategory")
                      ELSE [v EXCEPT !.pc = "HasCategory",
                                     !.path = Append(@, "HasCategory")]
    /\ UNCHANGED <<detector, call, server>>

\* lines 291-297: the tools and the prompt of the category
SelectPrompt ==
    /\ verifier.pc = "HasCategory"
    /\ verifier' = IF _get_category_specific_prompt(verifier.category) = "None"
                   THEN VerifierReturns(verifier, "NoCategory")
                   ELSE [verifier EXCEPT !.pc = "PromptSelected",
                                         !.path = Append(@, "PromptSelected")]
    /\ UNCHANGED <<detector, call, server>>

\* lines 1319-1350: the request to the reasoning service and its tool calls
Request(reply) ==
    /\ verifier.pc = "PromptSelected"
    /\ verifier' = IF ~reply.ok
                   THEN [verifier EXCEPT !.requests = @ + 1, !.pc = "CallFailed",
                                         !.path = Append(@, "CallFailed")]
                   ELSE [verifier EXCEPT !.requests = @ + 1, !.pc = "ToolCallRound",
                                         !.path = Append(@, "ToolCallRound"),
                                         !.asked = reply.tool_calls,
                                         !.todo = reply.tool_calls]
    /\ UNCHANGED <<detector, call, server>>

\* lines 1352-1387: one iteration of the tool-call loop
RunNextTool ==
    /\ verifier.pc = "ToolCallRound"
    /\ verifier.todo # <<>>
    /\ LET res == ToolLoop(<<Head(verifier.todo)>>,
                           [empty |-> FALSE,
                            verification_results |-> verifier.results,
                            tool_calls |-> verifier.ran, confidence_score |-> 0])
       IN verifier' = [verifier EXCEPT !.todo = Tail(@),
                                       !.ran = res.tool_calls,
                                       !.results = res.verification_results]
    /\ UNCHANGED <<detector, call, server>>

\* lines 1389-1392: the confidence of the results, and the call returns them
Aggregate ==
    /\ verifier.pc = "ToolCallRound"
    /\ verifier.todo = <<>>
    /\ verifier' = [verifier EXCEPT
                       !.pc = "ResultsAggregated",
                       !.path = Append(@, "ResultsAggregated"),
                       !.confidence_score =
                           _calculate_verification_confidence(verifier.results)]
    /\ UNCHANGED <<detector, call, server>>

\* lines 300-319: the await on what the call returned, and the return.  A
\* call that returned {} has no 'verification_results' to extract from
AwaitCall ==
    /\ verifier.pc \in {"CallFailed", "ResultsAggregated"}
    /\ verifier' =
          IF AwaitRaises \/ verifier.pc = "CallFailed"
          THEN VerifierReturns(verifier, "Raised")
          ELSE [verifier EXCEPT
                  !.pc = "Returned",
                  !.ret = Result(Absent, DictV(verifier.results), Absent, Absent)]
    /\ UNCHANGED <<detector, call, server>>

NextVerifier ==
    \/ \E category \in {"", NoneStr, "food", "travel", "hotel", "misc"} :
          VerifierStart(category)
    \/ SelectPrompt
    \/ \E reply \in VerifierReplies : Request(reply)
    \/ RunNextTool
    \/ Aggregate
    \/ AwaitCall

SpecVerifier == Init /\ [][NextVerifier]_vars

\* --------------------------------------------------------- the chat server
\* (src/ai/waitress_server.py)  /delete_db requests handled by the threads of
\* the waitress pool, and cleanup_dbs_on_exit.  server.threads[t].pc is the
\* position of thread t in delete_db_endpoint; server.deleted lists the
\* directories passed to delete_vector_db; server.at_exit is the list as it
\* stands when the process begins to exit

\* lines 198-212: the body is read and the name is looked up in the list.
\* body: the JSON of the request: "" for no name, else the name.  The
\* threads of the server are daemon threads: they take requests up while
\* the exit handlers run and after them, as long as the process lives
Receive(t, body) ==
    /\ server.requests < MaxRequests
    /\ server.threads[t].pc = "idle"
    /\ server' =
          IF body = ""
          THEN [server EXCEPT !.requests = @ + 1, !.responses = Append(@, 400)]
          ELSE [server EXCEPT
                  !.requests = @ + 1,
                  !.threads[t] =
                      [pc |-> IF \E i \in 1..Len(server.dbs_to_delete_on_exit) :
                                   server.dbs_to_delete_on_exit[i] = body
                              THEN "delete_records" ELSE "append",
                       vector_db_name |-> body]]
    /\ UNCHANGED <<detector, call, verifier>>

\* line 209: dbs_to_delete_on_exit.append(vector_db_name), by a thread
\* that found the name missing
Mark(t) ==
    /\ server.threads[t].pc = "append"
    /\ server' = [server EXCEPT
                    !.dbs_to_delete_on_exit = Append(@, server.threads[t].vector_db_name),
                    !.threads[t].pc = "delete_records"]
    /\ UNCHANGED <<detector, call, verifier>>

\* lines 214-229: the records of the database are deleted from the store;
\* no record found, and an exception of the store, leave the store as it is
DeleteRecords(t, store) ==
    /\ server.threads[t].pc = "delete_records"
    /\ server' = [server EXCEPT
                    !.records_deleted =
                        IF store = "deleted" THEN @ \cup {server.threads[t].vector_db_name}
                        ELSE @,
                    !.threads[t].pc = "respond"]
    /\ UNCHANGED <<detector, call, verifier>>

\* lines 231-234: the response is 200 whatever the store did
Respond(t) ==
    /\ server.threads[t].pc = "respond"
    /\ server' = [server EXCEPT
                    !.responses = Append(@, 200),
                    !.threads[t] = [pc |-> "idle", vector_db_name |-> ""]]
    /\ UNCHANGED <<detector, call, verifier>>

\* the process begins to exit: the atexit handlers run while the daemon
\* threads of the server go on with the requests they hold
Exit ==
    /\ ~server.exiting
    /\ server' = [server EXCEPT !.exiting = TRUE,
                                !.at_exit = server.dbs_to_delete_on_exit]
    /\ UNCHANGED <<detector, call, verifier>>

\* lines 241-242: one iteration of the loop of cleanup_dbs_on_exit over the
\* list, which ends when the iterator is past the end of the list
cleanup_dbs_on_exit ==
    /\ server.exiting /\ ~server.cleaned
    /\ server' =
          IF server.next <= Len(server.dbs_to_delete_on_exit)
          THEN [server EXCEPT
                  !.deleted = Append(@, server.dbs_to_delete_on_exit[server.next]),
                  !.next = @ + 1]
          ELSE [server EXCEPT !.cleaned = TRUE]
    /\ UNCHANGED <<detector, call, verifier>>

NextServer ==
    \/ \E t \in 1..2, body \in {"", "db_1", "db_2"} : Receive(t, body)
    \/ \E t \in 1..2 : Mark(t)
    \/ \E t \in 1..2, store \in {"deleted", "none", "raises"} : DeleteRecords(t, store)
    \/ \E t \in 1..2 : Respond(t)
    \/ Exit
    \/ cleanup_dbs_on_exit

SpecServer == Init /\ [][NextServer]_vars

\* ================================================================== claims
VerdictKeys ==
    {"fraud_check_id", "overall_risk_score", "fraud_probability",
     "risk_factors", "verification_results", "image_analysis_results",
     "online_verification_results", "summary"}

MapKeys == {"verification_results", "image_analysis_results",
            "online_verification_results"}

\* analyze_receipt has returned a verdict
HasVerdict == pc = "returned" /\ DOMAIN returned = VerdictKeys

\* everything analyzer a returned is in verdict v
Contributes(a, v) ==
    /\ futures[a].risk_factors.kind = "list" =>
          SeqToBag(futures[a].risk_factors.items) \sqsubseteq SeqToBag(v.risk_factors)
    /\ \A key \in MapKeys :
          futures[a][key].kind = "dict" =>
             DOMAIN futures[a][key].map \subseteq DOMAIN v[key]

\* the risk-factor lists of the futures that yielded a dict, as one bag
RECURSIVE FactorBag(_)
FactorBag(as) ==
    IF as = {} THEN EmptyBag
    ELSE LET a == CHOOSE x \in as : TRUE
             own == IF futures[a].tag = "dict" /\ futures[a].risk_factors.kind = "list"
                    THEN SeqToBag(futures[a].risk_factors.items)
                    ELSE EmptyBag
         IN own (+) FactorBag(as \ {a})

\* the risk factors the category verifier derives from the results of the
\* tools it ran in this invocation
VerifierFactors ==
    _extract_risk_factors_from_verification(category_verification.tool_results,
                                            expense_category)

\* the category score of the verdict's own mapping
VerdictCategoryScore ==
    _get_category_specific_risk_score(expense_category,
                                      returned.verification_results)

\* C1: for every subset of the four analyzers that raises and every
\* completion order, analyze_receipt on an existing expense returns a
\* verdict, every analyzer that did not raise contributes, and the risk score
\* is the weighted sum with 0 for the failed categories
C1_FailureIsolation ==
    (pc = "returned" /\ expense_data.found) =>
        /\ DOMAIN returned = VerdictKeys
        /\ \A a \in Analyzers : futures[a].tag = "dict" => Contributes(a, returned)
        /\ 100 * Fixed(returned.overall_risk_score) = 20 * Fixed(VerdictCategoryScore)

\* C2: for an expense id the store does not hold (or a failing lookup)
\* analyze_receipt fails with a NotFoundError that reaches the caller, no
\* analyzer is submitted, the category verifier is not started and there is
\* no partial verdict
C2_NotFoundReachesCaller ==
    (pc = "returned" /\ ~expense_data.found) =>
        /\ returned = Propagated("NotFoundError")
        /\ \A a \in Analyzers : futures[a] = Pending
        /\ category_verification = NotVerified
        /\ inserts = 0

\* C3: for every expense row the store returns, whatever its category,
\* analyze_receipt returns a result with all eight verdict keys; the empty
\* result is returned only when the expense is not found
C3_VerdictShaped ==
    pc = "returned" =>
        /\ expense_data.found => DOMAIN returned = VerdictKeys
        /\ returned = EmptyDict => ~expense_data.found

\* C4: the verdict's risk factors are, as a multiset, exactly the risk-factor
\* lists of the completed analyzers plus those of the category verifier,
\* whatever the completion order
C4_FactorMultiset ==
    HasVerdict =>
        SeqToBag(returned.risk_factors)
            = FactorBag(Analyzers) (+) SeqToBag(VerifierFactors)

\* every key a completed analyzer or the category verifier supplied is in
\* the verdict's verification_results
C5_KeysPresent ==
    HasVerdict =>
        /\ \A a \in Analyzers :
              (futures[a].tag = "dict" /\ futures[a].verification_results.kind = "dict")
                 => DOMAIN futures[a].verification_results.map
                       \subseteq DOMAIN returned.verification_results
        /\ DOMAIN category_verification.tool_results
              \subseteq DOMAIN returned.verification_results
        /\ category_verification.tool_results # EmptyDict
              => (expense_category \o "_verification")
                    \in DOMAIN returned.verification_results

\* the merge of one result overwrites the keys that result supplies
C5_LaterWins ==
    \A a \in Analyzers :
        (a \notin merged /\ a \in merged' /\ futures[a].tag = "dict"
           /\ futures[a].risk_factors.kind # "bad"
           /\ futures[a].verification_results.kind = "dict")
        => \A k \in DOMAIN futures[a].verification_results.map :
              verification_results'[k] = futures[a].verification_results.map[k]

\* C5: the verdict's verification_results is the key-by-key merge of the
\* mappings of all completed analyzers: every supplied key is present, and on
\* a key collision the value merged later wins
C5_KeyByKeyMerge == []C5_KeysPresent /\ [][C5_LaterWins]_vars

\* the store write of this invocation failed
StoreFailed == inserts > 0 /\ result_id = NoneId

\* C6: when the store write fails, analyze_receipt still returns the
\* complete verdict (scores, risk factors, mappings, summary as computed
\* before the write) and only fraud_check_id is empty
C6_PersistenceNonFatal ==
    (pc = "returned" /\ StoreFailed) =>
        /\ returned = [Verdict EXCEPT !.fraud_check_id = NoneId]
        /\ returned.overall_risk_score
              = _calculate_risk_score(expense_category, verification_results)
        /\ returned.fraud_probability
              = _calculate_fraud_probability(expense_category, verification_results)
        /\ returned.summary
              = _generate_summary(returned.overall_risk_score,
                                  returned.fraud_probability, Self)
        /\ \A a \in Analyzers :
              (futures[a].tag = "dict" /\ futures[a].risk_factors.kind = "list"
                 /\ futures[a].verification_results.kind # "bad")
              => Contributes(a, returned)

C6_Witness ==
    /\ pc = "returned" /\ StoreFailed /\ HasVerdict
    /\ returned.risk_factors # <<>>
    /\ DLess(Zero(FALSE), returned.overall_risk_score)
    /\ returned.fraud_check_id = NoneId

\* a returned value as its holder sees it now: the list and the mappings of
\* a verdict are the detector's own objects, not copies
AsHeldNow(v) ==
    IF DOMAIN v = VerdictKeys
    THEN [v EXCEPT !.risk_factors = risk_factors,
                   !.verification_results = verification_results,
                   !.image_analysis_results = image_analysis_results,
                   !.online_verification_results = online_verification_results]
    ELSE v

\* C7: the verdict of each invocation on a detector holds only what that
\* invocation's analyzers contributed, and a verdict already returned is not
\* changed by a later invocation
C7_VerdictPerInvocation ==
    /\ HasVerdict =>
          SeqToBag(returned.risk_factors)
             \sqsubseteq (FactorBag(Analyzers) (+) SeqToBag(VerifierFactors))
    /\ \A i \in 1..Len(earlier) : AsHeldNow(earlier[i]) = earlier[i]

\* a double in [0,1]
InUnitRange(x) == DLessEq(Zero(FALSE), x) /\ DLessEq(x, DFromInt(1))

\* category scores of 0.0 and 1.0, in any combination, give a weighted sum
\* in [0,1]
UnitScoresInUnitRange ==
    \A sv \in [DOMAIN weights -> {Zero(FALSE), DFromInt(1)}] :
        InUnitRange(WeightedSum(sv))

\* C8: the risk score is the sum of weight times category score with the
\* weights 0.30, 0.25, 0.15, 0.10, 0.20, which sum to 1.0, and it is in [0,1]
\* whenever every category score is in [0,1] (the weighted sums of scores 0.0
\* and 1.0 depend on no state and are looked at before the first invocation)
C8_WeightedRiskScore ==
    /\ weights.llm_analysis + weights.image_analysis + weights.online_verification
          + weights.pattern_analysis + weights.category_specific = 100
    /\ pc = "idle" => UnitScoresInUnitRange
    /\ HasVerdict =>
          LET sc == CategoryScores(expense_category, returned.verification_results)
          IN /\ 100 * Fixed(returned.overall_risk_score)
                   = 30 * Fixed(sc.llm_analysis) + 25 * Fixed(sc.image_analysis)
                       + 15 * Fixed(sc.online_verification)
                       + 10 * Fixed(sc.pattern_analysis)
                       + 20 * Fixed(sc.category_specific)
             /\ (\A c \in DOMAIN sc : InUnitRange(sc[c]))
                   => InUnitRange(returned.overall_risk_score)

\* a verdict whose category score is 0.75: risk score 0.15
C8_Witness ==
    /\ HasVerdict
    /\ Fixed(VerdictCategoryScore) = 75 * (Scale \div 100)
    /\ Fixed(returned.overall_risk_score) = 15 * (Scale \div 100)

\* the average of the gated confidence increments of this invocation's tool
\* results
RunConfidence ==
    _calculate_verification_confidence(category_verification.tool_results)

\* C9: fraud_probability = 0.7 * risk_score + 0.3 * verification_confidence,
\* the confidence being the average of the gated increments obtained from
\* the tool results of this run
C9_BlendWithConfidence ==
    HasVerdict =>
        10 * Fixed(returned.fraud_probability)
            = 7 * Fixed(returned.overall_risk_score) + 3 * RunConfidence

\* C10: in every verdict fraud_probability is in [0,1] and the percentage the
\* summary shows for it is in 0..100
C10_ProbabilityInUnitRange ==
    HasVerdict =>
        /\ InUnitRange(returned.fraud_probability)
        /\ returned.summary # ErrorSummary
              => returned.summary.fraud_percentage \in 0..100

\* a verdict with the largest reachable probability, 0.7 * 0.2
C10_Witness ==
    /\ HasVerdict
    /\ Fixed(returned.fraud_probability) = 14 * (Scale \div 100)
    /\ returned.summary.fraud_percentage = 13

\* C11: the summary carries the label HIGH RISK when fraud_probability >= 0.8,
\* MODERATE RISK when 0.5 <= fraud_probability < 0.8 and LOW RISK otherwise,
\* the first 3 risk factors at most and the first 2 manipulation indicators
\* at most
C11_SummaryLabel ==
    call.fn = "_generate_summary" =>
        /\ call.out # ErrorSummary
        /\ call.out.assessment
              = (IF DLessEq(Decimal(8, 1), call.args.fraud_probability) THEN "HIGH RISK"
                 ELSE IF DLessEq(Decimal(5, 1), call.args.fraud_probability)
                      THEN "MODERATE RISK"
                 ELSE "LOW RISK")
        /\ call.out.factors = Take(call.args.risk_factors, 3)
        /\ call.out.indicators
              = Take(Get(call.args.image_analysis_results, "manipulation_indicators"), 2)

\* C12: every tool call of the reasoning service that names one of the four
\* tools is executed locally, with or without its optional arguments, and its
\* result is in the verdict's verification_results under the tool's key
C12_ToolResultsInVerdict ==
    HasVerdict =>
        \A i \in 1..Len(category_verification.tool_calls) :
            LET name == category_verification.tool_calls[i].tool_name
            IN name \in _get_verification_tools =>
                  /\ ToolKey(name) \in DOMAIN category_verification.tool_results
                  /\ ToolKey(name) \in DOMAIN returned.verification_results

\* the verifier passed through state s
Visited(s) == \E i \in 1..Len(verifier.path) : verifier.path[i] = s

\* what the verifier returns agrees with _category_specific_verification
VerifierAgrees ==
    verifier.pc = "Returned" =>
        \E reply \in VerifierReplies :
            verifier.ret
               = _category_specific_verification(
                     groq_client, verifier.category,
                     Acc(<<>>, EmptyDict, EmptyDict, EmptyDict), reply).ret

\* C13: a category-verification invocation goes NoCategory -> empty result,
\* or HasCategory -> PromptSelected -> ToolCallRound -> ResultsAggregated: for
\* an empty or unknown category the result is empty and neither the request
\* nor a tool is run; for travel, hotel and food exactly one request is
\* issued, tools run only after it, the results are aggregated only after
\* every requested tool has run, and the aggregated result is what the
\* invocation ends with
C13_VerifierStateMachine ==
    /\ verifier.category \notin {"travel", "hotel", "food"}
          => verifier.requests = 0 /\ verifier.ran = <<>>
    /\ Visited("NoCategory") => verifier.ret = EmptyResult
    /\ verifier.requests <= 1
    /\ verifier.ran # <<>> => verifier.requests = 1
    /\ (verifier.pc = "Returned" /\ groq_client
           /\ verifier.category \in {"travel", "hotel", "food"})
          => verifier.requests = 1
    /\ Visited("ResultsAggregated")
          => /\ verifier.todo = <<>>
             /\ Len(verifier.ran) = Len(verifier.asked)
             /\ \A i \in 1..Len(verifier.asked) :
                   verifier.ran[i].tool_name = verifier.asked[i].name
    /\ (verifier.pc = "Returned" /\ Visited("ResultsAggregated"))
          => verifier.ret.verification_results = DictV(verifier.results)

\* an analysis that found its expense has attempted exactly one insert, and
\* a verdict with an id has its record in the store
C14_OneRecordAsVerdict ==
    (pc = "returned" /\ expense_data.found) =>
        /\ inserts = 1
        /\ DOMAIN returned = VerdictKeys
        /\ returned.fraud_check_id.some =>
              \E i \in 1..Len(receipt_fraud_checks) :
                 LET row == receipt_fraud_checks[i]
                 IN /\ row.id = returned.fraud_check_id
                    /\ row.expense_id = expense_id
                    /\ row.overall_risk_score = returned.overall_risk_score
                    /\ row.fraud_probability = returned.fraud_probability
                    /\ row.risk_factors = returned.risk_factors
                    /\ \A key \in MapKeys : row[key] = returned[key]

\* the insert is attempted when all four results and the category verifier's
\* have been merged and the scores computed
C14_InsertAfterMerge ==
    inserts' = inserts + 1 =>
        /\ merged = Analyzers
        /\ category_verification.ret.tag # "pending"
        /\ scores.overall_risk_score
              = _calculate_risk_score(expense_category, verification_results)
        /\ scores.fraud_probability
              = _calculate_fraud_probability(expense_category, verification_results)
        /\ scores.summary # EmptyDict

\* C14: every analysis that finds its expense attempts exactly one store
\* insert, after the merge of the four analyzers and the category verifier and
\* after scoring; the record carries the expense id, scores, risk factors and
\* mappings of the returned verdict, whose fraud_check_id is the record's id
C14_PersistOnceAfterMerge ==
    []C14_OneRecordAsVerdict /\ [][C14_InsertAfterMerge]_vars

\* the parts of a result that have the shape the merge expects
WellFormedParts(r) ==
    IF r.tag # "dict" THEN EmptyResult
    ELSE Result(IF r.risk_factors.kind = "list" THEN r.risk_factors ELSE Absent,
                IF r.verification_results.kind = "dict"
                   THEN r.verification_results ELSE Absent,
                IF r.image_analysis_results.kind = "dict"
                   THEN r.image_analysis_results ELSE Absent,
                IF r.online_verification_results.kind = "dict"
                   THEN r.online_verification_results ELSE Absent)

\* the detector's accumulating fields after the step
SelfNext == Acc(risk_factors', verification_results', image_analysis_results',
                online_verification_results')

\* the merge of the judgment analyzer's result adds all of its well-formed
\* parts or nothing
C15_AllOrNothing ==
    ("llm" \notin merged /\ "llm" \in merged')
    => SelfNext \in {Self, MergeResult(Self, WellFormedParts(futures["llm"]))}

\* whatever the reply, the analysis gives a verdict that holds what the
\* other analyzers returned
C15_OthersMerged ==
    (pc = "returned" /\ expense_data.found) =>
        /\ HasVerdict
        /\ \A a \in Analyzers \ {"llm"} :
              futures[a].tag = "dict" => Contributes(a, returned)

\* C15: for every reply of the reasoning service to the judgment request
\* (no JSON, JSON that is no object, missing keys, keys of the wrong shape)
\* the judgment analyzer contributes its well-formed parts, missing keys
\* being empty, or nothing at all: never only a part of the reply, and never
\* at the expense of the other analyzers' contributions
C15_UntrustedReply == []C15_OthersMerged /\ [][C15_AllOrNothing]_vars

\* the accumulating list and mapping are written by the orchestrator's thread
C16_SingleWriter ==
    \A w \in writes :
        w.field \in {"risk_factors", "verification_results"} => w.thread = MainThread

\* a step in which a pool task finishes leaves the accumulating fields
\* alone, and a step of the merge loop adds one result
C16_OneAtATime ==
    /\ (\E a \in Analyzers : futures[a] = Pending /\ futures'[a] # Pending)
          => UNCHANGED <<risk_factors, verification_results>>
    /\ \A a \in Analyzers :
          (a \notin merged /\ a \in merged')
             => /\ merged' = merged \cup {a}
                /\ SelfNext = MergeResult(Self, futures[a])

\* C16: during one analysis the accumulating risk-factor list and
\* verification-results mapping are written only by the orchestrator's own
\* thread, one result at a time, in every interleaving of the four tasks and
\* the category verifier
C16_OrchestratorOwnsAccumulators ==
    []C16_SingleWriter /\ [][C16_OneAtATime]_vars

\* a verdict after the orchestrator wrote both accumulating fields while the
\* image task wrote fields of its own from the pool
C16_Witness ==
    /\ HasVerdict
    /\ Write("risk_factors", MainThread) \in writes
    /\ Write("verification_results", MainThread) \in writes
    /\ Write("original_text", "image") \in writes
    /\ returned.risk_factors # <<>>

\* no pool task has written a field of the detector
C17_NoWorkerWrites == \A w \in writes : w.thread = MainThread

\* the result of a task is read when the task has completed
C17_ReadAfterCompletion ==
    \A a \in Analyzers : (a \notin merged /\ a \in merged') => futures[a] # Pending

\* C17: the four pool tasks share no mutable state while they run: no task
\* writes a field of the detector object, and the only effect of a task is
\* the result it returns, read after the task has completed
C17_NoSharedMutableState ==
    []C17_NoWorkerWrites /\ [][C17_ReadAfterCompletion]_vars

\* the four tasks have been submitted
Dispatched == pc \in {"verify", "merging", "score", "store", "return"}

\* past the merge: scoring, persisting, returning
PastMerge ==
    \/ pc \in {"score", "store", "return"}
    \/ pc = "returned" /\ expense_data.found /\ expense_data.category.kind # "null"

\* scores are computed, the record written and the result returned when
\* every task has completed or raised and the category verifier has finished
C18_AllFinished ==
    PastMerge =>
        /\ \A a \in Analyzers : futures[a].tag \in {"dict", "nondict", "raised"}
        /\ merged = Analyzers
        /\ category_verification.ret.tag # "pending"

\* C18: there is no cancellation: once the four analyzers are dispatched,
\* analyze_receipt neither scores, persists nor returns before each of the
\* four has completed or raised and the category verifier has finished; and
\* when all of them terminate, analyze_receipt terminates
C18_NoCancellation ==
    []C18_AllFinished /\ (Dispatched ~> pc = "returned")

\* a verdict returned after two tasks raised and two completed
C18_Witness ==
    /\ HasVerdict
    /\ futures["llm"] = Raised /\ futures["pattern"] = Raised
    /\ futures["image"].tag = "dict" /\ futures["online"].tag = "dict"
    /\ category_verification.requested

\* the increment of a field that holds True
Counted(vr, key, field, increment) ==
    IF key \in DOMAIN vr /\ field \in DOMAIN vr[key] /\ vr[key][field] = TRUE
    THEN <<increment>> ELSE <<>>

\* the increment of a field that is present with a value
Present(vr, key, field, increment) ==
    IF key \in DOMAIN vr /\ field \in DOMAIN vr[key] THEN <<increment>> ELSE <<>>

\* the average of the increments whose tool was called and whose field is
\* present in the tool's result
GatedAverage(vr) ==
    Average(Counted(vr, "vendor_info", "vendor_exists", 10 * Tenth)
            \o Counted(vr, "vendor_info", "verified", 8 * Tenth)
            \o Present(vr, "pricing_info", "price_range", 9 * Tenth)
            \o Present(vr, "pricing_info", "last_updated", 7 * Tenth)
            \o Counted(vr, "location_info", "location_verified", 10 * Tenth)
            \o (IF "location_info" \in DOMAIN vr
                    /\ "address_match" \in DOMAIN vr["location_info"]
                    /\ vr["location_info"].address_match = "True"
                 THEN <<8 * Tenth>> ELSE <<>>)
            \o Counted(vr, "operating_hours", "was_open", 9 * Tenth)
            \o (IF "operating_hours" \in DOMAIN vr
                    /\ "special_hours" \in DOMAIN vr["operating_hours"]
                    /\ vr["operating_hours"].special_hours = FALSE
                 THEN <<7 * Tenth>> ELSE <<>>))

\* C19: the verifier's confidence is the average of the increments that
\* apply (vendor exists 1.0, verified 0.8, price range 0.9, last updated 0.7,
\* location verified 1.0, address match 0.8, was open 0.9, not special hours
\* 0.7), an increment counting only when its tool was called and its field is
\* present in the tool's result; 0 when none applies
C19_GatedConfidence ==
    call.fn = "_calculate_verification_confidence" =>
        call.out.value = GatedAverage(call.args.verification_results)

\* the vendor and location tools were called, the location tool without an
\* address: the address increment and those of the two tools not called
\* are left out, and the confidence is (1.0 + 0.8 + 1.0) / 3
C19_Witness ==
    /\ call.fn = "_calculate_verification_confidence"
    /\ DOMAIN call.args.verification_results = {"vendor_info", "location_info"}
    /\ call.args.verification_results["location_info"].address_match = "None"
    /\ call.args.verification_results["location_info"].coordinates_match = "True"
    /\ call.out.value = (28 * Tenth) \div 3

\* the confidence a path reports, 0.0 when it reports none
Reported(results, key) == IF key \in DOMAIN results THEN results[key] ELSE NumV(0)

\* C20: OCR reconciliation takes transcript, structured fields and base
\* confidence from the model-based path only when its confidence is strictly
\* higher than the classical best confidence, otherwise from the classical
\* path; when no discrepancy is found between the two paths the combined
\* confidence is the larger of the two confidences, with no discount
C20_HigherConfidencePath ==
    call.fn = "_combine_ocr_results" =>
        LET t == call.args.tesseract_results
            l == call.args.llm_results
            best == IF "best_result" \in DOMAIN t THEN t.best_result ELSE EmptyDict
            classical == Reported(best, "confidence")
            model == Reported(l, "confidence_score")
            higher == model.kind \in {"num", "bool"} /\ Num(model) > Num(classical)
            larger == IF higher THEN Num(model) ELSE Num(classical)
        IN  /\ call.out.extracted_text =
                  (IF higher THEN l.extracted_text
                   ELSE IF "text" \in DOMAIN best THEN best.text ELSE StrV(<<>>))
            /\ call.out.structured_data =
                  (IF higher THEN l.structured_data
                   ELSE IF "structured_data" \in DOMAIN t THEN t.structured_data
                        ELSE DictV(EmptyDict))
            /\ Num(call.out.confidence_score) <= larger
            /\ call.out.discrepancies = <<>> => Num(call.out.confidence_score) = larger

\* a path reports a field: the key is there with a value that is not empty
Reports(data, field) ==
    field \in DOMAIN data
    /\ data[field] \notin {NoneV, StrV(<<>>), ListV(<<>>), DictV(EmptyDict)}

\* two reported values of a field differ: dates and vendor names after their
\* normalization, amounts by at least a cent
Differ(field, t, l) ==
    CASE field = "date" -> _normalize_date(t) # _normalize_date(l)
      [] field = "vendor_name" -> _normalize_text(t) # _normalize_text(l)
      [] OTHER -> /\ float(t).ok /\ float(t).d.kind = "finite"
                  /\ float(l).ok /\ float(l).d.kind = "finite"
                  /\ Abs(Fixed(float(t).d) - Fixed(float(l).d)) >= Scale \div 100

\* the fields both paths report and that differ
Mismatching(tesseract_data, llm_data) ==
    {f \in {"date", "total_amount", "vendor_name", "tax_amount"} :
        /\ Reports(tesseract_data, f) /\ Reports(llm_data, f)
        /\ Differ(f, tesseract_data[f], llm_data[f])}

\* the structured data of the two paths in a call of _combine_ocr_results,
\* when both are dicts
BothDicts ==
    /\ call.fn = "_combine_ocr_results"
    /\ "structured_data" \in DOMAIN call.args.tesseract_results
    /\ "structured_data" \in DOMAIN call.args.llm_results
    /\ call.args.llm_results.structured_data.kind = "dict"

\* the number of discrepancies found is the number of fields both paths
\* report and that differ
C21_Count ==
    BothDicts =>
        Len(call.out.discrepancies) =
            Cardinality(Mismatching(call.args.tesseract_results.structured_data.map,
                                    call.args.llm_results.structured_data.map))

\* another reply of the model in which one more field mismatches has at
\* least as many discrepancies
C21_Monotone ==
    BothDicts =>
        LET t == call.args.tesseract_results.structured_data
            l == call.args.llm_results.structured_data
        IN  \A other \in LlmData :
                (/\ other.kind = "dict"
                 /\ DOMAIN other.map = DOMAIN l.map
                 /\ \E f \in DOMAIN l.map :
                       /\ \A g \in DOMAIN l.map \ {f} : other.map[g] = l.map[g]
                       /\ f \notin Mismatching(t.map, l.map)
                       /\ f \in Mismatching(t.map, other.map))
                => Len(_find_discrepancies(t, other)) >= Len(_find_discrepancies(t, l))

\* the combined confidence is the selected confidence times 1 - 0.1 * count
C21_Discount ==
    BothDicts =>
        LET classical == Reported(call.args.tesseract_results.best_result, "confidence")
            model == Reported(call.args.llm_results, "confidence_score")
            selected == IF model.kind \in {"num", "bool"} /\ Num(model) > Num(classical)
                        THEN Num(model) ELSE Num(classical)
        IN  Num(call.out.confidence_score) =
                (selected * (10 - Len(call.out.discrepancies))) \div 10

\* C21: the OCR discrepancy count is the number of fields among date,
\* total_amount, vendor_name and tax_amount that both paths report and that
\* differ (dates after normalization, vendor names after lowercase
\* alphanumeric normalization, amounts by a difference of at least 0.01);
\* one more mismatching field never lowers the count; the combined
\* confidence is the selected confidence times (1 - 0.1 * count)
C21_DiscrepancyCount == C21_Count /\ C21_Monotone /\ C21_Discount

\* the string has the form YYYY-MM-DD: four digits, two digits, two digits
IsoForm(s) ==
    LET parts == Split(s, "-")
    IN  /\ Len(parts) = 3
        /\ Len(parts[1]) = 4 /\ Len(parts[2]) = 2 /\ Len(parts[3]) = 2
        /\ \A i \in 1..3 : AllDigits(parts[i])

\* the formats that parse the string
Parsing(s) == {i \in 1..5 : strptime(s, formats[i]).ok}

\* normalizing twice gives what normalizing once gives
C22_Idempotent ==
    call.fn = "_normalize_date" => _normalize_date(call.out) = call.out

\* a string already in YYYY-MM-DD form comes back unchanged
C22_IsoUnchanged ==
    (call.fn = "_normalize_date" /\ IsoForm(call.args.date_str.items))
        => call.out = call.args.date_str

\* the first of the five formats that matches decides, and a string that
\* matches none comes back unchanged
C22_FirstMatch ==
    call.fn = "_normalize_date" =>
        LET s == call.args.date_str.items
        IN  /\ Parsing(s) = {} => call.out = call.args.date_str
            /\ \A i \in Parsing(s) :
                  (\A j \in Parsing(s) : i <= j)
                  => call.out = StrV(strftime(strptime(s, formats[i])))

\* C22: date normalization is idempotent, _normalize_date(_normalize_date(s))
\* = _normalize_date(s) for every string s; a string already in YYYY-MM-DD
\* form is returned unchanged; the five formats %m/%d/%Y, %d/%m/%Y, %Y-%m-%d,
\* %m-%d-%Y, %d-%m-%Y are tried in that order and the first match wins; a
\* string matching none is returned unchanged
C22_NormalizeDateIdempotent == C22_Idempotent /\ C22_IsoUnchanged /\ C22_FirstMatch

\* C23: the image quality assessment is the message of the first rule that
\* matches in the order blur < 100, brightness < 50 or > 200, contrast < 30,
\* noise > 20, compression > 0.5, and "Good quality" when none matches; a
\* blur score below 100 gives the blur message whatever the other metrics
C23_FirstMatchingRule ==
    call.fn = "_assess_image_quality" =>
        LET a == call.args
            rules == <<[hit |-> a.blur < 100,
                        msg |-> "Poor quality - Image is too blurry"],
                       [hit |-> a.brightness < 50 \/ a.brightness > 200,
                        msg |-> "Poor quality - Incorrect brightness"],
                       [hit |-> a.contrast < 30,
                        msg |-> "Poor quality - Low contrast"],
                       [hit |-> a.noise > 20,
                        msg |-> "Poor quality - High noise level"],
                       [hit |-> 2 * a.compression > Scale,
                        msg |-> "Poor quality - Heavy compression artifacts"]>>
            hits == {i \in 1..5 : rules[i].hit}
        IN  /\ hits = {} => call.out = "Good quality"
            /\ hits # {} =>
                  \E i \in hits : /\ \A j \in hits : i <= j
                                  /\ call.out = rules[i].msg
            /\ a.blur < 100 => call.out = "Poor quality - Image is too blurry"

\* a blurry image whose four other metrics are out of range as well
C23_Witness ==
    /\ call.fn = "_assess_image_quality"
    /\ call.args.blur = 50 /\ call.args.brightness = 201
    /\ call.args.contrast = 29 /\ call.args.noise = 21
    /\ call.args.compression > 5 * Tenth
    /\ call.out = "Poor quality - Image is too blurry"

\* the entries of a finished image analysis
StageEntries == call.out.image_analysis_results.map

\* the image of the call with every stage and every sub-check getting through
\* but those of the stage named
Undisturbed(stage) ==
    LET image == call.args.image
        quality == [image.quality EXCEPT !.raises = FALSE, !.noise_raises = FALSE]
        manipulation ==
            [k \in DOMAIN image.manipulation |->
                IF k = "raises" THEN FALSE
                ELSE IF image.manipulation[k] = "raises"
                     THEN (IF k = "metadata" THEN "clean" ELSE "none")
                     ELSE image.manipulation[k]]
    IN  [quality |-> IF stage = "image_quality" THEN image.quality ELSE quality,
         ocr |-> IF stage = "ocr_analysis" THEN image.ocr
                 ELSE [image.ocr EXCEPT !.raises = FALSE],
         manipulation |-> IF stage = "manipulation_indicators"
                          THEN image.manipulation ELSE manipulation]

\* C24 (stages): once the image is downloaded and decoded, the analysis
\* returns image_analysis_results with an entry for each of the four stages;
\* a stage that raises leaves its empty or default entry, and the entry of
\* a stage is the one it has when no other stage raises
C24_StageIsolation ==
    (call.fn = "_image_analysis" /\ ~call.args.fails) =>
        LET image == call.args.image
        IN  /\ call.out.tag = "dict"
            /\ call.out.image_analysis_results.kind = "dict"
            /\ DOMAIN StageEntries = {"image_quality", "ocr_analysis",
                                       "manipulation_indicators",
                                       "text_pattern_analysis"}
            /\ image.quality.raises => StageEntries.image_quality = EmptyDict
            /\ image.ocr.raises => StageEntries.ocr_analysis = EmptyDict
            /\ image.manipulation.raises => StageEntries.manipulation_indicators = <<>>
            /\ \A stage \in {"image_quality", "ocr_analysis", "manipulation_indicators"} :
                  StageEntries[stage] = ImageResults(Undisturbed(stage))[stage]
            /\ StageEntries.text_pattern_analysis
                  = [suspicious_patterns |-> <<>>, text_consistency |-> EmptyDict,
                     format_analysis |-> EmptyDict]

\* C24 (sub-checks): a manipulation sub-check that raises counts as "not
\* detected": the indicators are those of the same image with that
\* sub-check finding nothing
C24_SubChecks ==
    (call.fn = "_image_analysis" /\ ~call.args.fails
        /\ ~call.args.image.manipulation.raises) =>
            StageEntries.manipulation_indicators
              = ImageResults(Undisturbed("none")).manipulation_indicators

\* C24: a stage of the image analysis that raises gives its empty or default
\* entry and leaves the entries of the other stages as they are, and a
\* manipulation sub-check that raises counts as "not detected" without
\* suppressing the indicators of the other sub-checks
C24_StageFailureIsolated == C24_StageIsolation /\ C24_SubChecks

\* C25: the entry appended to tool_calls for an executed tool call carries
\* the tool's name, the arguments the service supplied and, as result, the
\* mapping the tool returned, which is the one stored under the tool's key of
\* verification_results
C25_ToolCallRecorded ==
    \A i \in 1..Len(verifier.ran) :
        LET entry == verifier.ran[i]
            tool_call == verifier.asked[i]
        IN  /\ entry.tool_name = tool_call.name
            /\ entry.arguments = tool_call
            /\ tool_call.name \in _get_verification_tools =>
                  entry.result = RunTool(tool_call)

\* what the reply holds under a key of extracted_data, None when it holds
\* nothing there
Extracted(key) ==
    LET parsed_data == call.args.parsed_data
    IN  IF "extracted_data" \in DOMAIN parsed_data
           /\ key \in DOMAIN parsed_data.extracted_data.map
        THEN parsed_data.extracted_data.map[key]
        ELSE NoneV

\* the decimal numeral left of a string once every character but digits,
\* the point and the minus sign is dropped: an optional minus sign, then
\* digits around at most one point; <<>> when what is left is no numeral
Numerals(chars) ==
    LET left == SelectSeq(chars, LAMBDA c : c \in {"0", "1", "2", "3", "4", "5", "6",
                                                   "7", "8", "9", ".", "-"})
        IsDigits(t) == \A i \in 1..Len(t) : t[i] \notin {".", "-"}
    IN  {n \in [sign : {"", "-"}, whole : {SubSeq(left, i, j) : i, j \in 1..Len(left)} \cup {<<>>},
                 frac : {SubSeq(left, i, Len(left)) : i \in 1..Len(left)} \cup {<<>>},
                 point : BOOLEAN] :
            /\ IsDigits(n.whole) /\ IsDigits(n.frac)
            /\ Len(n.whole) + Len(n.frac) > 0
            /\ ~n.point => n.frac = <<>>
            /\ left = (IF n.sign = "-" THEN <<"-">> ELSE <<>>) \o n.whole
                       \o (IF n.point THEN <<".">> ELSE <<>>) \o n.frac}

\* C26: every record store_expense_data passes to the store has an amount
\* and a tax_amount that are a number or null, never a string: a string
\* gives the number its digits, point and minus sign write once the other
\* characters are dropped, null when these write none; a number is stored
\* with the value it has
C26_NumericOrNull ==
    call.fn = "store_expense_data" =>
        \A i \in 1..Len(call.out.passed) :
            \A f \in {<<"Amount", "amount">>, <<"Tax Amount", "tax_amount">>} :
                LET given == Extracted(f[1])
                    stored == call.out.passed[i][f[2]]
                IN  /\ stored.kind \in {"num", "none"}
                    /\ given.kind = "num" => stored = given
                    /\ given.kind = "none" => stored = NoneV
                    /\ given.kind = "str" =>
                          /\ stored = NoneV <=> Numerals(given.items) = {}
                          /\ \A n \in Numerals(given.items) :
                                stored.num
                                  = (IF n.sign = "-" THEN 0 - 1 ELSE 1)
                                    * (Number(n.whole) * Unit
                                       + (Number(n.frac) * Unit) \div 10 ^ Len(n.frac))

\* a record is stored whose amount was written with a currency sign and
\* whose tax amount cannot be converted
C26_Witness ==
    /\ call.fn = "store_expense_data"
    /\ Len(call.out.passed) = 1
    /\ Extracted("Amount") = StrV(<<"$", "1", ".", "5">>)
    /\ call.out.passed[1].amount = NumV(15 * (Unit \div 10))
    /\ Extracted("Tax Amount") = StrV(<<"1", ".", "5", ".">>)
    /\ call.out.passed[1].tax_amount = NoneV

\* occurrences of a name in a list
Occurrences(list, name) == Cardinality({i \in 1..Len(list) : list[i] = name})

\* C27 (list): dbs_to_delete_on_exit holds each name once at most
C27_NoDuplicates ==
    \A name \in {"db_1", "db_2"} : Occurrences(server.dbs_to_delete_on_exit, name) <= 1

\* C27 (requests): a directory is passed to delete_vector_db only by a step
\* of cleanup_dbs_on_exit, while the process exits
C27_DeletedAtExitOnly ==
    [][server'.deleted # server.deleted =>
          /\ server.exiting /\ ~server.cleaned
          /\ server'.threads = server.threads]_vars

\* C27 (exit): once the cleanup is over, every name marked before the exit
\* was passed to delete_vector_db exactly once
C27_EachDeletedOnce ==
    server.cleaned =>
        \A i \in 1..Len(server.at_exit) :
            Occurrences(server.deleted, server.at_exit[i]) = 1

\* C27: whatever /delete_db requests the threads of the server handle, the
\* list of marked databases holds no name twice and every marked name is
\* passed to delete_vector_db exactly once, at exit
C27_MarkedOnceDeletedOnce == C27_NoDuplicates /\ C27_EachDeletedOnce

\* C28 (scores): in every verdict the scores of llm_analysis, image_analysis,
\* online_verification and pattern_analysis and the verification confidence
\* are 0 and the category_specific score is in [0,1], so that
\* overall_risk_score <= 0.2 and fraud_probability = 0.7 * overall_risk_score
\* <= 0.14
C28_Scores ==
    HasVerdict =>
        LET sc == CategoryScores(expense_category, returned.verification_results)
        IN  /\ sc.llm_analysis = Zero(FALSE) /\ sc.image_analysis = Zero(FALSE)
            /\ sc.online_verification = Zero(FALSE) /\ sc.pattern_analysis = Zero(FALSE)
            /\ _get_verification_confidence = Zero(FALSE)
            /\ InUnitRange(sc.category_specific)
            /\ 5 * Fixed(returned.overall_risk_score) = Fixed(sc.category_specific)
            /\ DLessEq(returned.overall_risk_score, Decimal(2, 1))
            /\ 10 * Fixed(returned.fraud_probability)
                  = 7 * Fixed(returned.overall_risk_score)
            /\ DLessEq(returned.fraud_probability, Decimal(14, 2))

\* C28 (label): the summary of every verdict carries the label LOW RISK
C28_LowRisk ==
    HasVerdict =>
        /\ "assessment" \in DOMAIN returned.summary
        /\ returned.summary.assessment = "LOW RISK"

\* C28: every verdict of analyze_receipt has the four stub scores and the
\* verification confidence at 0, a category_specific score in [0,1],
\* overall_risk_score <= 0.2, fraud_probability = 0.7 * overall_risk_score
\* <= 0.14, and a summary labelled LOW RISK
C28_AlwaysLowRisk == C28_Scores /\ C28_LowRisk

\* C29: in every result of _combine_ocr_results the discrepancy list holds
\* one entry at most for each of the four compared fields, and only for a
\* field that both paths report; with both confidences in [0,1] the combined
\* confidence is at least 0.6 times the selected confidence, never negative
\* and never above the selected confidence
C29_DiscountBounded ==
    call.fn = "_combine_ocr_results" =>
        LET found == call.out.discrepancies
            best == Get(call.args.tesseract_results, "best_result")
            classical == IF "confidence" \in DOMAIN best THEN best.confidence ELSE NumV(0)
            model == IF "confidence_score" \in DOMAIN call.args.llm_results
                     THEN call.args.llm_results.confidence_score ELSE NumV(0)
            selected == IF Num(model) > Num(classical) THEN Num(model) ELSE Num(classical)
        IN  /\ Len(found) <= 4
            /\ \A i, j \in 1..Len(found) : found[i].field = found[j].field => i = j
            /\ \A i \in 1..Len(found) :
                  /\ found[i].field \in {"date", "total_amount", "vendor_name", "tax_amount"}
                  /\ Reports(call.args.tesseract_results.structured_data.map, found[i].field)
                  /\ Reports(call.args.llm_results.structured_data.map, found[i].field)
            /\ (/\ classical.kind \in {"num", "bool"} /\ Num(classical) \in 0..Scale
                /\ model.kind \in {"num", "bool"} /\ Num(model) \in 0..Scale) =>
                    /\ Num(call.out.confidence_score) >= 0
                    /\ Num(call.out.confidence_score) <= selected
                    /\ 10 * Num(call.out.confidence_score) >= 6 * selected

\* the two paths differ on all four fields: the confidence 0.75 of the
\* selected path comes out as 0.45
C29_Witness ==
    /\ call.fn = "_combine_ocr_results"
    /\ Len(call.out.discrepancies) = 4
    /\ "best_result" \in DOMAIN call.args.tesseract_results
    /\ call.args.tesseract_results.best_result.confidence = NumV(3 * (Scale \div 4))
    /\ "confidence_score" \in DOMAIN call.args.llm_results
    /\ call.args.llm_results.confidence_score = NumV(5 * Tenth)
    /\ call.out.confidence_score = NumV(45 * (Scale \div 100))

\* C30: an invocation of analyze_receipt whose expense is not found leaves
\* risk_factors, verification_results, image_analysis_results,
\* online_verification_results and expense_category of the detector as they
\* were, submits no analyzer (no request to the reasoning service, no image
\* fetched), starts no category verifier and inserts no fraud-check record
C30_NotFoundLeavesState ==
    [][(runs' = runs + 1 /\ ~expense_data'.found) =>
          /\ pc' = "returned"
          /\ risk_factors' = risk_factors
          /\ verification_results' = verification_results
          /\ image_analysis_results' = image_analysis_results
          /\ online_verification_results' = online_verification_results
          /\ expense_category' = expense_category
          /\ \A a \in Analyzers : futures'[a] = Pending
          /\ category_verification' = NotVerified
          /\ inserts' = 0
          /\ receipt_fraud_checks' = receipt_fraud_checks]_vars

\* the second invocation on a detector did not find its expense; the first
\* one left risk factors, a category and a fraud-check record
C30_Witness ==
    /\ runs = 2 /\ pc = "returned" /\ ~expense_data.found
    /\ returned = EmptyDict
    /\ risk_factors # <<>> /\ expense_category = "food"
    /\ Len(receipt_fraud_checks) = 1

====
